---- MODULE Spec2Model ----
(***************************************************************************)
(* A model of the GeoJSON diff engine of geodiff-action (src/src/geodiff.py)*)
(* load_geojson, get_feature_id, compare_features, compute_diff and        *)
(* format_output, over JSON values as Python's json module builds them,    *)
(* of get_file_from_commit (src/src/git_utils.py) and of the entry script  *)
(* (src/src/main.py).                                                      *)
(***************************************************************************)
EXTENDS Integers, Sequences, FiniteSets, TLC

VARIABLES
    pc,                     \* the position of the call being modelled
    feature,                \* get_feature_id: the feature argument
    index,                  \* get_feature_id: the index argument
    identity,               \* get_feature_id: its outcome
    fs,                     \* the files at base_file and compare_file
    base_file,              \* compute_diff: first argument
    compare_file,           \* compute_diff: second argument
    base_data,              \* compute_diff: outcome of load_geojson(base_file)
    compare_data,           \* compute_diff: outcome of load_geojson(compare_file)
    base_features,          \* compare_features: first argument
    compare_features_list,  \* compare_features: second argument
    comparison,             \* compare_features: its outcome
    diff_result,            \* compute_diff: its outcome
    output_format,          \* format_output: the mode argument
    formatted_output,       \* format_output: its outcome
    permuted,               \* compare_features called on the inputs reordered
    summary_input,          \* main.py: summary, the summary input
    repo,                   \* the git repository around base_file
    repo_path,              \* main.py: find_repo_root's result
    file_rel_path,          \* main.py: base_file relative to the repository root
    prev_commit,            \* main.py: get_previous_commit's result
    temp_path,              \* get_file_from_commit: the path mkstemp made
    prev_file_path,         \* get_file_from_commit: its outcome
    temp_files_to_cleanup,  \* main.py: the extracted files to delete
    actual_base,            \* main.py: first argument of the diff, or None
    actual_compare,         \* main.py: second argument of the diff, or None
    has_changes,            \* main.py: the flag the outputs report
    outputs,                \* the core.set_output calls made so far
    failed,                 \* the core.set_failed calls made so far
    pending,                \* the exception on its way out of the script, if any
    exit_status,            \* the exit status of the run, -1 while it runs
    completed               \* the completion message has been printed

\* The entry script's locals and what it leaves behind.
mainVars == <<summary_input, repo, repo_path, file_rel_path, prev_commit, temp_path,
              prev_file_path, temp_files_to_cleanup, actual_base, actual_compare,
              has_changes, outputs, failed, pending, exit_status, completed>>

vars == <<pc, feature, index, identity, fs, base_file, compare_file, base_data,
          compare_data, base_features, compare_features_list, comparison,
          diff_result, output_format, formatted_output, permuted, mainVars>>

----------------------------------------------------------------------------
(* Bounds of the model.                                                    *)

\* get_feature_id is applied at the indices 0..MaxIndex.
MaxIndex == 2
\* compare_features is applied to feature sequences of at most MaxLen features.
MaxLen == 2
\* The FeatureCollection documents on disk hold at most MaxDocLen features.
MaxDocLen == 2

----------------------------------------------------------------------------
(* JSON values.  json.load yields None, bool, int, str, list and dict; a   *)
(* value is a record of its Python type t and its payload: n for bool (0/1,*)
(* bool being a subclass of int) and int, s for str, l for the items of a  *)
(* list, o for the (key, value) pairs of a dict in insertion order.        *)

JVal(t, n, s, l, o) == [t |-> t, n |-> n, s |-> s, l |-> l, o |-> o]
JNull == JVal("null", 0, "", <<>>, <<>>)
JBool(b) == JVal("bool", IF b THEN 1 ELSE 0, "", <<>>, <<>>)
JNum(k) == JVal("num", k, "", <<>>, <<>>)
JStr(x) == JVal("str", 0, x, <<>>, <<>>)
JList(l) == JVal("list", 0, "", l, <<>>)
JObj(o) == JVal("obj", 0, "", <<>>, o)

\* The keys of a dict.
Keys(v) == {v.o[i][1] : i \in DOMAIN v.o}
\* `k in d` for a dict d.
HasKey(v, k) == v.t = "obj" /\ k \in Keys(v)
\* d[k] for a dict d that holds k.
Get(v, k) == v.o[CHOOSE i \in DOMAIN v.o : v.o[i][1] = k][2]
\* d.get(k, default) for a dict d.
GetOr(v, k, default) == IF HasKey(v, k) THEN Get(v, k) ELSE default

\* Python's truth value of a JSON value (`if properties:`).
Truthy(v) ==
    CASE v.t = "null" -> FALSE
      [] v.t \in {"bool", "num"} -> v.n # 0
      [] v.t = "str" -> v.s # ""
      [] v.t = "list" -> Len(v.l) > 0
      [] v.t = "obj" -> Len(v.o) > 0

\* Python's == on JSON values: bool and int compare as numbers (True == 1),
\* lists item by item, dicts by key whatever the insertion order.
RECURSIVE PyEq(_, _)
PyEq(a, b) ==
    IF a.t \in {"bool", "num"} /\ b.t \in {"bool", "num"} THEN a.n = b.n
    ELSE IF a.t # b.t THEN FALSE
    ELSE CASE a.t = "null" -> TRUE
           [] a.t = "str" -> a.s = b.s
           [] a.t = "list" ->
                /\ Len(a.l) = Len(b.l)
                /\ \A i \in DOMAIN a.l : PyEq(a.l[i], b.l[i])
           [] a.t = "obj" ->
                /\ Keys(a) = Keys(b)
                /\ \A k \in Keys(a) : PyEq(Get(a, k), Get(b, k))

\* The decimal digits of a natural number, as str(int) writes them.
Digit == <<"0", "1", "2", "3", "4", "5", "6", "7", "8", "9">>
RECURSIVE NatStr(_)
NatStr(k) == IF k < 10 THEN Digit[k + 1] ELSE NatStr(k \div 10) \o Digit[(k % 10) + 1]
IntStr(k) == IF k < 0 THEN "-" \o NatStr(0 - k) ELSE NatStr(k)

\* repr() and str() of a JSON value: a str inside a container is quoted,
\* None, True and False are spelled as Python spells them.
RECURSIVE PyRepr(_)
RECURSIVE ReprItems(_, _)
RECURSIVE ReprPairs(_, _)
ReprItems(l, i) ==
    IF i > Len(l) THEN ""
    ELSE (IF i > 1 THEN ", " ELSE "") \o PyRepr(l[i]) \o ReprItems(l, i + 1)
ReprPairs(o, i) ==
    IF i > Len(o) THEN ""
    ELSE (IF i > 1 THEN ", " ELSE "") \o "'" \o o[i][1] \o "': "
             \o PyRepr(o[i][2]) \o ReprPairs(o, i + 1)
PyRepr(v) ==
    CASE v.t = "null" -> "None"
      [] v.t = "bool" -> IF v.n = 1 THEN "True" ELSE "False"
      [] v.t = "num" -> IntStr(v.n)
      [] v.t = "str" -> "'" \o v.s \o "'"
      [] v.t = "list" -> "[" \o ReprItems(v.l, 1) \o "]"
      [] v.t = "obj" -> "{" \o ReprPairs(v.o, 1) \o "}"
PyStr(v) == IF v.t = "str" THEN v.s ELSE PyRepr(v)

----------------------------------------------------------------------------
(* Outcomes of a call: a returned value or a raised exception.  GeoDiffError*)
(* is raised with six messages, the spec's six error kinds; every other    *)
(* exception is named by its Python class.                                 *)

Ok(v) == [ok |-> TRUE, val |-> v, exc |-> ""]
Raise(e) == [ok |-> FALSE, val |-> JNull, exc |-> e]
NoCall == [ok |-> FALSE, val |-> JNull, exc |-> "not called"]

GeoDiffErrors ==
    {"NotFound", "UnsupportedFormat", "MalformedInput", "InvalidSchema",
     "TypeMismatch", "UnsupportedType"}

----------------------------------------------------------------------------
(* get_feature_id.                                                         *)

\* The string literals of the model that hold another as a substring
\* (`key in properties` for a str is Python's substring test).
Substrings == {<<"id", "id">>, <<"id", "fid">>, <<"fid", "fid">>, <<"id", "idx">>}

\* `key in x` for a str key: an outcome holding a bool, or TypeError.
PyIn(key, x) ==
    CASE x.t = "obj" -> Ok(JBool(key \in Keys(x)))
      [] x.t = "list" -> Ok(JBool(\E i \in DOMAIN x.l : PyEq(x.l[i], JStr(key))))
      [] x.t = "str" -> Ok(JBool(<<key, x.s>> \in Substrings))
      [] OTHER -> Raise("TypeError")

\* x[key] for a str key: the value of a dict, TypeError for a str or a list
\* (indices must be integers) and for None, bool and int (not subscriptable).
PySubscript(x, key) ==
    IF x.t = "obj"
    THEN IF key \in Keys(x) THEN Ok(Get(x, key)) ELSE Raise("KeyError")
    ELSE Raise("TypeError")

\* The property keys scanned, in priority order.
ID_KEYS == <<"id", "ID", "fid", "FID", "OBJECTID", "name", "NAME">>

\* The loop over ID_KEYS from position i on.
RECURSIVE ScanKeys(_, _, _)
ScanKeys(properties, idx, i) ==
    IF i > Len(ID_KEYS) THEN Ok(JStr("feature_" \o IntStr(idx)))
    ELSE LET present == PyIn(ID_KEYS[i], properties) IN
         IF ~present.ok THEN present
         ELSE IF present.val.n = 1
              THEN LET v == PySubscript(properties, ID_KEYS[i]) IN
                   IF v.ok THEN Ok(JStr(PyStr(v.val))) ELSE v
              ELSE ScanKeys(properties, idx, i + 1)

\* A resolver that consults the properties before the feature's own id.
get_feature_id_PropertiesFirst(f, idx) ==
    LET properties == GetOr(f, "properties", JObj(<<>>))
        scanned == IF Truthy(properties) /\ properties.t = "obj"
                   THEN ScanKeys(properties, idx, 1)
                   ELSE Ok(JStr("feature_" \o IntStr(idx))) IN
    IF scanned.ok /\ scanned.val # JStr("feature_" \o IntStr(idx)) THEN scanned
    ELSE IF HasKey(f, "id") THEN Ok(JStr(PyStr(Get(f, "id"))))
    ELSE scanned

\* A resolver that knows every feature by its position only.
get_feature_id_PositionOnly(f, idx) ==
    IF f.t # "obj" THEN Raise("AttributeError")
    ELSE Ok(JStr("feature_" \o IntStr(idx)))

get_feature_id(f, idx) ==
    LET hasId == PyIn("id", f) IN
    IF ~hasId.ok THEN hasId
    ELSE IF hasId.val.n = 1
    THEN LET v == PySubscript(f, "id") IN
         IF v.ok THEN Ok(JStr(PyStr(v.val))) ELSE v
    ELSE IF f.t # "obj" THEN Raise("AttributeError")
    ELSE LET properties == GetOr(f, "properties", JObj(<<>>)) IN
         IF Truthy(properties)
         THEN ScanKeys(properties, idx, 1)
         ELSE Ok(JStr("feature_" \o IntStr(idx)))

----------------------------------------------------------------------------
(* compare_features.                                                       *)

\* The items `enumerate(x)` walks: those of a list, the keys of a dict, the
\* characters of a str (the model's str values have at most one character);
\* None, bool and int are not iterable.
PyIter(x) ==
    CASE x.t = "list" -> Ok(x.l)
      [] x.t = "obj" -> Ok([i \in DOMAIN x.o |-> JStr(x.o[i][1])])
      [] x.t = "str" -> Ok(IF x.s = "" THEN <<>> ELSE <<JStr(x.s)>>)
      [] OTHER -> Raise("TypeError")

\* The identity outcome of each item at its zero-based position.
ItemIds(items) == [i \in DOMAIN items |-> get_feature_id(items[i], i - 1)]

\* A mapping that keeps the first feature of an identity, not the last.
FeatureMap_FirstWins(items) ==
    LET ids == ItemIds(items) IN
    [fid \in {ids[i].val.s : i \in DOMAIN items} |->
        items[CHOOSE i \in DOMAIN items :
                /\ ids[i].val.s = fid
                /\ \A j \in DOMAIN items : ids[j].val.s = fid => i <= j]]

\* {get_feature_id(f, i): f for i, f in enumerate(items)} when no call
\* raises: a later feature of an identity replaces an earlier one.
FeatureMap(items) ==
    LET ids == ItemIds(items) IN
    [fid \in {ids[i].val.s : i \in DOMAIN items} |->
        items[CHOOSE i \in DOMAIN items :
                /\ ids[i].val.s = fid
                /\ \A j \in DOMAIN items : ids[j].val.s = fid => j <= i]]

\* The dict comprehension's outcome: the mapping, or the exception of the
\* first item whose get_feature_id raises.
BuildMap(x) ==
    LET it == PyIter(x) IN
    IF ~it.ok THEN it
    ELSE LET ids == ItemIds(it.val)
             bad == {i \in DOMAIN it.val : ~ids[i].ok} IN
         IF bad # {}
         THEN ids[CHOOSE i \in bad : \A j \in bad : i <= j]
         ELSE Ok(FeatureMap(it.val))

\* A removed set that forgets to take the compare-side identities away.
RemovedIds_All(base_ids, compare_ids) == base_ids

\* An added set that is always empty.
AddedIds_Empty(base_ids, compare_ids) == {}

AddedIds(base_ids, compare_ids) == compare_ids \ base_ids
RemovedIds(base_ids, compare_ids) == base_ids \ compare_ids
CommonIds(base_ids, compare_ids) == base_ids \cap compare_ids

\* `is` in place of `==`: two separately loaded features are never the same
\* object.
FeaturesEqual_SameObject(base_feature, compare_feature) == FALSE

\* base_feature == compare_feature
FeaturesEqual(base_feature, compare_feature) == PyEq(base_feature, compare_feature)

\* The four lists are built by walking sets of identities, whose order
\* Python leaves open: each list is the family of its entries indexed by the
\* identity that produced the entry, its length the number of identities.
compare_features(base, compare) ==
    LET bm == BuildMap(base) IN
    IF ~bm.ok THEN Raise(bm.exc)
    ELSE LET cm == BuildMap(compare) IN
    IF ~cm.ok THEN Raise(cm.exc)
    ELSE LET base_map == bm.val
             compare_map == cm.val
             base_ids == DOMAIN base_map
             compare_ids == DOMAIN compare_map
             added_ids == AddedIds(base_ids, compare_ids)
             removed_ids == RemovedIds(base_ids, compare_ids)
             common_ids == CommonIds(base_ids, compare_ids)
             same == {fid \in common_ids : FeaturesEqual(base_map[fid], compare_map[fid])}
         IN Ok([added |-> [fid \in added_ids |-> compare_map[fid]],
                removed |-> [fid \in removed_ids |-> base_map[fid]],
                modified |-> [fid \in common_ids \ same |->
                                [id |-> fid, base |-> base_map[fid],
                                 compare |-> compare_map[fid]]],
                unchanged |-> [fid \in same |-> base_map[fid]]])

\* len() of one of the four lists.
ListLen(family) == Cardinality(DOMAIN family)

----------------------------------------------------------------------------
(* load_geojson.                                                           *)

\* str.lower() on the suffixes of the model's paths.
Lower(suffix) == IF suffix = ".GeoJSON" THEN ".geojson" ELSE suffix

\* A file is missing, a directory, bytes that are no UTF-8 text, text that
\* is no JSON, or JSON text with its parsed value.  open() raises
\* IsADirectoryError for a directory and the read UnicodeDecodeError for
\* undecodable bytes; only json.JSONDecodeError is caught and re-raised.
load_geojson(file_path) ==
    LET f == fs[file_path] IN
    IF f.kind = "missing" THEN Raise("NotFound")
    ELSE IF Lower(file_path.suffix) # ".geojson" THEN Raise("UnsupportedFormat")
    ELSE IF f.kind = "directory" THEN Raise("IsADirectoryError")
    ELSE IF f.kind = "undecodable" THEN Raise("UnicodeDecodeError")
    ELSE IF f.kind = "invalid_json" THEN Raise("MalformedInput")
    ELSE IF f.data.t # "obj" THEN Raise("InvalidSchema")
    ELSE IF "type" \notin Keys(f.data) THEN Raise("InvalidSchema")
    ELSE Ok(f.data)

----------------------------------------------------------------------------
(* compute_diff.                                                           *)

\* len(x) of a value enumerate() could walk.
PyLen(x) ==
    CASE x.t = "list" -> Len(x.l)
      [] x.t = "obj" -> Len(x.o)
      [] x.t = "str" -> IF x.s = "" THEN 0 ELSE 1
      [] OTHER -> 0

\* A normalisation that reads the `features` member of a Feature too.
FeatureSequence_AlwaysMember(data, type) ==
    IF PyEq(type, JStr("FeatureCollection")) \/ PyEq(type, JStr("Feature"))
    THEN Ok(GetOr(data, "features", JList(<<>>)))
    ELSE Raise("UnsupportedType")

\* The feature sequence a loaded document contributes (lines 144-151).
FeatureSequence(data, type) ==
    IF PyEq(type, JStr("FeatureCollection"))
    THEN Ok(GetOr(data, "features", JList(<<>>)))
    ELSE IF PyEq(type, JStr("Feature")) THEN Ok(JList(<<data>>))
    ELSE Raise("UnsupportedType")

\* A flag that overlooks the modified features.
HasChanges_AddedRemoved(cmp) == DOMAIN cmp.added # {} \/ DOMAIN cmp.removed # {}

\* bool(comparison["added"] or comparison["removed"] or comparison["modified"])
HasChanges(cmp) ==
    DOMAIN cmp.added # {} \/ DOMAIN cmp.removed # {} \/ DOMAIN cmp.modified # {}

\* A summary whose totals count the identities instead of the features.
DiffResult_TotalsByIdentity(base, compare, type, bfeatures, cfeatures, cmp) ==
    [base_file |-> base,
     compare_file |-> compare,
     type |-> type,
     summary |-> [added_count |-> ListLen(cmp.added),
                  removed_count |-> ListLen(cmp.removed),
                  modified_count |-> ListLen(cmp.modified),
                  unchanged_count |-> ListLen(cmp.unchanged),
                  total_base |-> ListLen(cmp.removed) + ListLen(cmp.modified)
                                    + ListLen(cmp.unchanged),
                  total_compare |-> ListLen(cmp.added) + ListLen(cmp.modified)
                                       + ListLen(cmp.unchanged)],
     changes |-> cmp,
     has_changes |-> HasChanges(cmp)]

\* The returned dictionary (lines 157-171).
DiffResult(base, compare, type, bfeatures, cfeatures, cmp) ==
    [base_file |-> base,
     compare_file |-> compare,
     type |-> type,
     summary |-> [added_count |-> ListLen(cmp.added),
                  removed_count |-> ListLen(cmp.removed),
                  modified_count |-> ListLen(cmp.modified),
                  unchanged_count |-> ListLen(cmp.unchanged),
                  total_base |-> PyLen(bfeatures),
                  total_compare |-> PyLen(cfeatures)],
     changes |-> cmp,
     has_changes |-> HasChanges(cmp)]

----------------------------------------------------------------------------
(* The features get_feature_id is applied to.                              *)

\* The value each recognised property key holds in the model's features.
KeyValue(k) ==
    CASE k = "id" -> JStr("p1")
      [] k = "ID" -> JNum(2)
      [] k = "fid" -> JNum(0)
      [] k = "FID" -> JNull
      [] k = "OBJECTID" -> JNum(17)
      [] k = "name" -> JStr("")
      [] k = "NAME" -> JBool(TRUE)

\* The sequence s without the items outside K.
RECURSIVE Restrict(_, _)
Restrict(s, K) ==
    IF s = <<>> THEN <<>>
    ELSE (IF Head(s) \in K THEN <<Head(s)>> ELSE <<>>) \o Restrict(Tail(s), K)

\* A properties mapping holding the keys K, inserted in the reverse of the
\* priority order, after an unrecognised key.
PropertiesOf(K) ==
    LET ks == Restrict(<<"NAME", "name", "OBJECTID", "FID", "fid", "ID", "id">>, K) IN
    JObj(<< <<"label", JStr("x")>> >> \o [i \in DOMAIN ks |-> <<ks[i], KeyValue(ks[i])>>])

MappingProperties ==
    {PropertiesOf(K) : K \in SUBSET {"id", "ID", "fid", "FID", "OBJECTID", "name", "NAME"}}
        \cup {JObj(<<>>)}

\* JSON values a `properties` member can hold that are no mapping.
OtherProperties ==
    {JNull, JNum(5), JNum(0), JBool(TRUE), JBool(FALSE), JStr("idx"), JStr("x"),
     JStr(""), JList(<<JStr("fid")>>), JList(<<JNum(1)>>), JList(<<>>)}

\* JSON values an `id` member can hold.
IdValues ==
    {JStr("1"), JNum(1), JNull, JBool(TRUE), JList(<<JStr("a"), JNum(1)>>),
     JObj(<< <<"k", JNull>> >>)}

Geometry == JObj(<< <<"type", JStr("Point")>>, <<"coordinates", JList(<<JNum(0), JNum(0)>>)>> >>)

\* A Feature object with the given members (each a sequence of pairs).
Feature(idMember, propertiesMember) ==
    JObj(<< <<"type", JStr("Feature")>> >> \o idMember
            \o << <<"geometry", Geometry>> >> \o propertiesMember)

ResolverFeatures ==
    {Feature(i, p) :
        i \in {<<>>} \cup {<< <<"id", v>> >> : v \in IdValues},
        p \in {<<>>} \cup {<< <<"properties", v>> >> :
                                v \in MappingProperties \cup OtherProperties}}

\* Indices of the resolver's calls: 0..MaxIndex, the spec's scenario (5) and
\* a two-digit one.
Indices == (0..MaxIndex) \cup {5, 12}

----------------------------------------------------------------------------
(* The resolver called on one feature.                                     *)

Idle == <<>>

\* The entry script is not running: nothing of it has a value.
MainIdle ==
    /\ summary_input = FALSE /\ repo = Idle
    /\ repo_path = <<>> /\ file_rel_path = <<>> /\ prev_commit = <<>>
    /\ temp_path = <<>> /\ prev_file_path = NoCall
    /\ temp_files_to_cleanup = <<>>
    /\ actual_base = <<>> /\ actual_compare = <<>>
    /\ has_changes = FALSE /\ outputs = <<>> /\ failed = <<>>
    /\ pending = "" /\ exit_status = -1 /\ completed = FALSE

InitResolver ==
    /\ pc = "get_feature_id"
    /\ feature \in ResolverFeatures
    /\ index \in Indices
    /\ identity = NoCall
    /\ fs = Idle /\ base_file = Idle /\ compare_file = Idle
    /\ base_data = NoCall /\ compare_data = NoCall
    /\ base_features = Idle /\ compare_features_list = Idle
    /\ comparison = NoCall /\ diff_result = NoCall
    /\ output_format = "" /\ formatted_output = NoCall /\ permuted = Idle
    /\ MainIdle

GetFeatureId ==
    /\ pc = "get_feature_id"
    /\ identity' = get_feature_id(feature, index)
    /\ pc' = IF identity'.ok THEN "id_returned" ELSE "id_raised"
    /\ UNCHANGED <<mainVars, output_format, formatted_output, permuted,
                   feature, index, fs, base_file, compare_file, base_data,
                   compare_data, base_features, compare_features_list,
                   comparison, diff_result>>

NextResolver == GetFeatureId

SpecResolver == InitResolver /\ [][NextResolver]_vars

----------------------------------------------------------------------------
(* Claims about get_feature_id.                                            *)

\* The least element of a non-empty set of integers.
Least(S) == CHOOSE x \in S : \A y \in S : x <= y

\* The identity the resolution order prescribes: the id attribute, else the
\* first recognised key the properties mapping holds, else the position.
PrescribedIdentity(f, idx) ==
    LET order == <<"id", "ID", "fid", "FID", "OBJECTID", "name", "NAME">>
        p == GetOr(f, "properties", JNull)
        held == {i \in DOMAIN order : HasKey(p, order[i])} IN
    IF HasKey(f, "id") THEN PyStr(Get(f, "id"))
    ELSE IF held # {} THEN PyStr(Get(p, order[Least(held)]))
    ELSE "feature_" \o IntStr(idx)

\* A feature as GeoJSON has it: properties is a mapping, null or absent.
WellFormedProperties(f) ==
    GetOr(f, "properties", JNull).t \in {"obj", "null"}

\* C6: get_feature_id resolves first-match-wins: the stringified id attribute
\* if the feature has one; else the stringified value of the first of id, ID,
\* fid, FID, OBJECTID, name, NAME present in properties; else feature_<index>,
\* also when properties is empty or absent.  Whenever the resolver returns it
\* returns that identity, and it returns for every feature that has an id or
\* whose properties is a mapping, null or absent.
C6_FirstMatchWins ==
    pc \in {"id_returned", "id_raised"} =>
        /\ (HasKey(feature, "id") \/ WellFormedProperties(feature)) => identity.ok
        /\ identity.ok => identity.val = JStr(PrescribedIdentity(feature, index))

\* C6 witness: no id attribute, properties holds FID, name and NAME but none
\* of id, ID, fid (and NAME was inserted first): the identity is str(None).
C6_Witness ==
    /\ pc = "id_returned"
    /\ ~HasKey(feature, "id")
    /\ HasKey(feature, "properties")
    /\ Keys(Get(feature, "properties")) = {"label", "FID", "name", "NAME"}
    /\ identity.val = JStr("None")

\* C7: the resolver is total: for every feature value, whatever JSON value
\* its id and properties members hold, and every index, get_feature_id
\* returns a string and never fails.
C7_ResolverTotal ==
    pc \in {"id_returned", "id_raised"} => identity.ok /\ identity.val.t = "str"

----------------------------------------------------------------------------
(* compare_features called on two feature sequences.                       *)

Props(pairs) == << <<"properties", JObj(pairs)>> >>
IdMember(v) == << <<"id", v>> >>

\* The features of the compared sequences: ids "1" and 1 stringify alike, a
\* name property of "1" resolves to the same identity, a feature without id
\* or recognised key is known by its position, True and 1 are equal to
\* Python, and a number as properties makes the resolver raise.
CompareFeatureValues ==
    {Feature(IdMember(JStr("1")), Props(<< <<"name", JStr("x")>> >>)),
     Feature(IdMember(JNum(1)), Props(<< <<"name", JStr("x")>> >>)),
     Feature(<<>>, Props(<< <<"name", JStr("1")>> >>)),
     Feature(<<>>, Props(<<>>)),
     Feature(IdMember(JStr("t")), Props(<< <<"flag", JBool(TRUE)>> >>)),
     Feature(IdMember(JStr("t")), Props(<< <<"flag", JNum(1)>> >>)),
     Feature(<<>>, << <<"properties", JNum(5)>> >>)}

\* The sequences over S of at most n items.
SeqsUpTo(S, n) == UNION {[1..k -> S] : k \in 0..n}

InitCompare ==
    /\ pc = "compare_features"
    /\ base_features \in {JList(l) : l \in SeqsUpTo(CompareFeatureValues, MaxLen)}
    /\ compare_features_list \in {JList(l) : l \in SeqsUpTo(CompareFeatureValues, MaxLen)}
    /\ comparison = NoCall
    /\ feature = Idle /\ index = 0 /\ identity = NoCall
    /\ fs = Idle /\ base_file = Idle /\ compare_file = Idle
    /\ base_data = NoCall /\ compare_data = NoCall
    /\ diff_result = NoCall
    /\ output_format = "" /\ formatted_output = NoCall /\ permuted = Idle
    /\ MainIdle

CompareFeatures ==
    /\ pc = "compare_features"
    /\ comparison' = compare_features(base_features, compare_features_list)
    /\ pc' = IF comparison'.ok THEN "cmp_returned" ELSE "cmp_raised"
    /\ UNCHANGED <<mainVars, output_format, formatted_output, permuted,
                   feature, index, identity, fs, base_file, compare_file,
                   base_data, compare_data, base_features,
                   compare_features_list, diff_result>>

NextCompare == CompareFeatures

SpecCompare == InitCompare /\ [][NextCompare]_vars

----------------------------------------------------------------------------
(* Claims about compare_features.                                          *)

\* The identities of one side: the resolver's result for each feature at
\* its position.
SideIds(side) == {get_feature_id(side.l[i], i - 1).val.s : i \in DOMAIN side.l}

\* The feature one side's mapping holds for an identity: the one at the
\* highest position among those that resolve to it.
Mapped(side, fid) ==
    LET at == {i \in DOMAIN side.l : get_feature_id(side.l[i], i - 1).val.s = fid} IN
    side.l[CHOOSE i \in at : \A j \in at : j <= i]

\* Deep structural equality of JSON values: the same type and, recursively,
\* the same content; a boolean is no number.
RECURSIVE JsonEq(_, _)
JsonEq(a, b) ==
    /\ a.t = b.t
    /\ CASE a.t \in {"null"} -> TRUE
         [] a.t \in {"bool", "num"} -> a.n = b.n
         [] a.t = "str" -> a.s = b.s
         [] a.t = "list" ->
              /\ Len(a.l) = Len(b.l)
              /\ \A i \in DOMAIN a.l : JsonEq(a.l[i], b.l[i])
         [] a.t = "obj" ->
              /\ Keys(a) = Keys(b)
              /\ \A k \in Keys(a) : JsonEq(Get(a, k), Get(b, k))

\* C1: after compare_features every identity of the union of the base-side
\* and compare-side identity sets is represented in exactly one of added,
\* removed, modified, unchanged, and the four lengths add up to the number
\* of distinct identities across both sides.
C1_Partition ==
    (pc \in {"cmp_returned"} /\ comparison.ok) =>
        LET r == comparison.val
            all == SideIds(base_features) \cup SideIds(compare_features_list)
            In(fid) == {c \in {"added", "removed", "modified", "unchanged"} :
                            fid \in DOMAIN r[c]} IN
        /\ \A fid \in all : Cardinality(In(fid)) = 1
        /\ \A c \in {"added", "removed", "modified", "unchanged"} : DOMAIN r[c] \subseteq all
        /\ ListLen(r.added) + ListLen(r.removed) + ListLen(r.modified)
              + ListLen(r.unchanged) = Cardinality(all)

\* C1 witness: two features a side, one added, one removed and one matched.
C1_Witness ==
    /\ pc = "cmp_returned"
    /\ ListLen(comparison.val.added) = 1
    /\ ListLen(comparison.val.removed) = 1
    /\ ListLen(comparison.val.modified) + ListLen(comparison.val.unchanged) = 1
    /\ Len(base_features.l) = 2 /\ Len(compare_features_list.l) = 2

\* C2: added is exactly the compare-side mapped features whose identity is
\* absent from the base side, removed exactly the base-side mapped features
\* whose identity is absent from the compare side.
C2_AddedRemoved ==
    (pc = "cmp_returned" /\ comparison.ok) =>
        LET r == comparison.val
            b == SideIds(base_features)
            c == SideIds(compare_features_list) IN
        /\ r.added = [fid \in c \ b |-> Mapped(compare_features_list, fid)]
        /\ r.removed = [fid \in b \ c |-> Mapped(base_features, fid)]

\* C2 witness: one side holds two features of one identity that the other
\* side lacks, so added (or removed) holds the later of the two.
C2_Witness ==
    /\ pc = "cmp_returned"
    /\ Len(compare_features_list.l) = 2
    /\ compare_features_list.l[1] # compare_features_list.l[2]
    /\ Cardinality(SideIds(compare_features_list)) = 1
    /\ ListLen(comparison.val.added) = 1
    /\ ListLen(comparison.val.removed) = 1

\* C3: every identity present on both sides is in unchanged when the two
\* feature values are deeply equal, and otherwise has one entry in modified
\* that records the identity with the whole base and compare values.
C3_ModifiedUnchanged ==
    (pc = "cmp_returned" /\ comparison.ok) =>
        LET r == comparison.val IN
        \A fid \in SideIds(base_features) \cap SideIds(compare_features_list) :
            LET bf == Mapped(base_features, fid)
                cf == Mapped(compare_features_list, fid) IN
            IF JsonEq(bf, cf)
            THEN fid \in DOMAIN r.unchanged /\ r.unchanged[fid] = bf
            ELSE /\ fid \in DOMAIN r.modified
                 /\ r.modified[fid] = [id |-> fid, base |-> bf, compare |-> cf]

----------------------------------------------------------------------------
(* compute_diff called on two paths.                                       *)

\* The features of the documents on disk: two that resolve to the identity
\* "1", one known by its position, and one whose properties is a number.
DocumentFeatures ==
    {Feature(IdMember(JStr("1")), Props(<< <<"name", JStr("x")>> >>)),
     Feature(IdMember(JNum(1)), Props(<< <<"name", JStr("y")>> >>)),
     Feature(<<>>, Props(<<>>)),
     Feature(<<>>, << <<"properties", JNum(5)>> >>)}

FeatureCollection(members) == JObj(<< <<"type", JStr("FeatureCollection")>> >> \o members)

\* The parsed values of the JSON files: FeatureCollections (also without a
\* features member, or with one that is no list of objects), Features,
\* objects of other types, an object without type, and roots that are no
\* object.
Documents ==
    {FeatureCollection(<< <<"features", JList(l)>> >>) :
        l \in SeqsUpTo(DocumentFeatures, MaxDocLen)}
    \cup {FeatureCollection(<<>>),
          FeatureCollection(<< <<"features", JNull>> >>),
          FeatureCollection(<< <<"features", JList(<<JNum(7)>>)>> >>)}
    \cup DocumentFeatures
    \cup {JObj(<< <<"type", t>> >>) :
            t \in {JStr("Point"), JStr(""), JNum(1), JBool(TRUE), JNull}}
    \cup {JObj(<< <<"features", JList(<<>>)>> >>), JList(<<>>), JNull}

File(kind, data) == [kind |-> kind, data |-> data]

Files ==
    {File(k, JNull) : k \in {"missing", "directory", "undecodable", "invalid_json"}}
        \cup {File("json", d) : d \in Documents}

Path(name, suffix) == [name |-> name, suffix |-> suffix]

Paths == {Path("base", ".geojson"), Path("compare", ".GeoJSON"), Path("layer", ".gpkg")}

\* The content of a path that load_geojson refuses by its extension is never
\* read: such a path is missing, a directory or one JSON file.
FilesAt(path) ==
    IF Lower(path.suffix) = ".geojson" THEN Files
    ELSE {File("missing", JNull), File("directory", JNull),
          File("json", FeatureCollection(<<>>))}

Init ==
    /\ pc = "compute_diff"
    /\ base_file \in Paths
    /\ compare_file \in Paths
    /\ \E b \in FilesAt(base_file), c \in FilesAt(compare_file) :
          /\ base_file = compare_file => b = c
          /\ fs = [p \in {base_file, compare_file} |-> IF p = base_file THEN b ELSE c]
    /\ base_data = NoCall /\ compare_data = NoCall
    /\ base_features = Idle /\ compare_features_list = Idle
    /\ comparison = NoCall /\ diff_result = NoCall
    /\ output_format = "" /\ formatted_output = NoCall /\ permuted = Idle
    /\ MainIdle
    /\ feature = Idle /\ index = 0 /\ identity = NoCall

\* A first step that reads the compare document before the base document.
LoadBase_CompareFirst ==
    /\ pc = "compute_diff"
    /\ compare_data' = load_geojson(compare_file)
    /\ base_data' = IF compare_data'.ok THEN load_geojson(base_file) ELSE base_data
    /\ pc' = IF compare_data'.ok /\ base_data'.ok THEN "loaded_both" ELSE "cd_raised"
    /\ diff_result' = IF ~compare_data'.ok THEN Raise(compare_data'.exc)
                      ELSE IF ~base_data'.ok THEN Raise(base_data'.exc)
                      ELSE diff_result
    /\ UNCHANGED <<mainVars, output_format, formatted_output, permuted,
                   feature, index, identity, fs, base_file, compare_file,
                   base_features, compare_features_list, comparison>>

\* Line 135: base_data = load_geojson(base_file)
LoadBase ==
    /\ pc = "compute_diff"
    /\ base_data' = load_geojson(base_file)
    /\ pc' = IF base_data'.ok THEN "loaded_base" ELSE "cd_raised"
    /\ diff_result' = IF base_data'.ok THEN diff_result ELSE Raise(base_data'.exc)
    /\ UNCHANGED <<mainVars, output_format, formatted_output, permuted,
                   feature, index, identity, fs, base_file, compare_file,
                   compare_data, base_features, compare_features_list, comparison>>

\* Line 136: compare_data = load_geojson(compare_file)
LoadCompare ==
    /\ pc = "loaded_base"
    /\ compare_data' = load_geojson(compare_file)
    /\ pc' = IF compare_data'.ok THEN "loaded_both" ELSE "cd_raised"
    /\ diff_result' = IF compare_data'.ok THEN diff_result ELSE Raise(compare_data'.exc)
    /\ UNCHANGED <<mainVars, output_format, formatted_output, permuted,
                   feature, index, identity, fs, base_file, compare_file,
                   base_data, base_features, compare_features_list, comparison>>

\* Lines 138-151: the type check and the two feature sequences.
Normalize ==
    /\ pc = "loaded_both"
    /\ LET base_type == GetOr(base_data.val, "type", JNull)
           compare_type == GetOr(compare_data.val, "type", JNull)
           bs == FeatureSequence(base_data.val, base_type)
           cs == FeatureSequence(compare_data.val, base_type) IN
       IF ~PyEq(base_type, compare_type)
       THEN /\ diff_result' = Raise("TypeMismatch")
            /\ pc' = "cd_raised"
            /\ UNCHANGED <<base_features, compare_features_list>>
       ELSE IF ~bs.ok
       THEN /\ diff_result' = Raise(bs.exc)
            /\ pc' = "cd_raised"
            /\ UNCHANGED <<base_features, compare_features_list>>
       ELSE /\ base_features' = bs.val
            /\ compare_features_list' = cs.val
            /\ pc' = "normalized"
            /\ UNCHANGED diff_result
    /\ UNCHANGED <<mainVars, output_format, formatted_output, permuted,
                   feature, index, identity, fs, base_file, compare_file,
                   base_data, compare_data, comparison>>

\* Lines 153-171: the comparison and the returned dictionary.
CompareAndBuild ==
    /\ pc = "normalized"
    /\ comparison' = compare_features(base_features, compare_features_list)
    /\ IF comparison'.ok
       THEN /\ diff_result' = Ok(DiffResult(base_file, compare_file,
                                            GetOr(base_data.val, "type", JNull),
                                            base_features, compare_features_list,
                                            comparison'.val))
            /\ pc' = "cd_returned"
       ELSE /\ diff_result' = Raise(comparison'.exc)
            /\ pc' = "cd_raised"
    /\ UNCHANGED <<mainVars, output_format, formatted_output, permuted,
                   feature, index, identity, fs, base_file, compare_file,
                   base_data, compare_data, base_features, compare_features_list>>

Next == LoadBase \/ LoadCompare \/ Normalize \/ CompareAndBuild

Spec == Init /\ [][Next]_vars

----------------------------------------------------------------------------
(* Claims about load_geojson and compute_diff.                             *)

TypeOf(loaded) == GetOr(loaded.val, "type", JNull)

\* compute_diff has gone past its type check and normalisation.
PastNormalize == pc \in {"normalized", "cd_returned", "cd_raised"} /\ compare_data.ok

\* C4: has_changes is true if and only if at least one of added, removed,
\* modified is non-empty; an all-unchanged result has has_changes = false.
C4_HasChanges ==
    pc = "cd_returned" =>
        LET r == diff_result.val IN
        r.has_changes <=> (ListLen(r.changes.added) > 0 \/ ListLen(r.changes.removed) > 0
                             \/ ListLen(r.changes.modified) > 0)

\* C4 witness: a result whose only change is one modified feature.
C4_Witness ==
    /\ pc = "cd_returned"
    /\ diff_result.val.has_changes
    /\ ListLen(diff_result.val.changes.added) = 0
    /\ ListLen(diff_result.val.changes.removed) = 0
    /\ ListLen(diff_result.val.changes.modified) = 1

\* A feature as GeoJSON has it: an object whose properties is a mapping,
\* null or absent.
WellFormedFeature(f) == f.t = "obj" /\ WellFormedProperties(f)

\* A valid document: a FeatureCollection whose features member is a list of
\* features, or a Feature.
ValidDocument(d) ==
    /\ d.t = "obj"
    /\ HasKey(d, "type")
    /\ \/ /\ Get(d, "type") = JStr("FeatureCollection")
          /\ HasKey(d, "features")
          /\ Get(d, "features").t = "list"
          /\ \A i \in DOMAIN Get(d, "features").l : WellFormedFeature(Get(d, "features").l[i])
       \/ /\ Get(d, "type") = JStr("Feature")
          /\ WellFormedFeature(d)

\* Both paths name readable .geojson files holding the same valid document.
IdenticalValidDocuments ==
    /\ \A p \in {base_file, compare_file} :
          fs[p].kind = "json" /\ Lower(p.suffix) = ".geojson"
    /\ fs[base_file].data = fs[compare_file].data
    /\ ValidDocument(fs[base_file].data)

\* C5: compute_diff of a valid document (FeatureCollection or Feature, also
\* with duplicate or positional identities) against an identical copy of
\* itself yields has_changes = false and added_count = removed_count =
\* modified_count = 0.
C5_IdenticalCopy ==
    (pc \in {"cd_returned", "cd_raised"} /\ IdenticalValidDocuments) =>
        /\ diff_result.ok
        /\ ~diff_result.val.has_changes
        /\ diff_result.val.summary.added_count = 0
        /\ diff_result.val.summary.removed_count = 0
        /\ diff_result.val.summary.modified_count = 0

\* C5 witness: two files holding the same collection of two features that
\* resolve to one identity: one unchanged entry, nothing else.
C5_Witness ==
    /\ pc = "cd_returned"
    /\ base_file # compare_file
    /\ IdenticalValidDocuments
    /\ diff_result.val.summary.total_base = 2
    /\ diff_result.val.summary.unchanged_count = 1

\* The outcome the loader's contract prescribes for a path.
PrescribedLoad(path) ==
    LET f == fs[path] IN
    IF f.kind = "missing" THEN Raise("NotFound")
    ELSE IF Lower(path.suffix) # ".geojson" THEN Raise("UnsupportedFormat")
    ELSE IF f.kind \in {"undecodable", "invalid_json"} THEN Raise("MalformedInput")
    ELSE IF f.data.t # "obj" \/ ~HasKey(f.data, "type") THEN Raise("InvalidSchema")
    ELSE Ok(f.data)

\* C8: load_geojson fails with NotFound when the path does not exist, with
\* UnsupportedFormat when the extension is not .geojson, with MalformedInput
\* when the content does not parse, with InvalidSchema when the parsed root
\* is no object or has no type, the first violated condition deciding; and
\* otherwise returns the parsed document unchanged.  (Stated for the paths
\* that are no directory.)
C8_LoadOutcome ==
    /\ (base_data # NoCall /\ fs[base_file].kind # "directory")
          => base_data = PrescribedLoad(base_file)
    /\ (compare_data # NoCall /\ fs[compare_file].kind # "directory")
          => compare_data = PrescribedLoad(compare_file)

\* C9: compute_diff fails with TypeMismatch whenever both documents load and
\* their type values differ, whatever the two values are, and then no
\* comparison result is produced.
C9_TypeMismatch ==
    (PastNormalize /\ ~JsonEq(TypeOf(base_data), TypeOf(compare_data))) =>
        /\ pc = "cd_raised"
        /\ diff_result = Raise("TypeMismatch")
        /\ comparison = NoCall

\* C10: when both documents have the same type, compute_diff compares the
\* feature lists of two FeatureCollections, the one-element lists [base] and
\* [compare] of two Features, and fails with UnsupportedType for every other
\* type value.
C10_Normalization ==
    (PastNormalize /\ JsonEq(TypeOf(base_data), TypeOf(compare_data))) =>
        LET type == TypeOf(base_data)
            compared == /\ comparison = compare_features(base_features, compare_features_list)
                        /\ comparison.ok => /\ pc = "cd_returned"
                                            /\ diff_result.val.changes = comparison.val IN
        IF type = JStr("FeatureCollection")
        THEN /\ base_features = GetOr(base_data.val, "features", JList(<<>>))
             /\ compare_features_list = GetOr(compare_data.val, "features", JList(<<>>))
             /\ pc # "normalized" => compared
        ELSE IF type = JStr("Feature")
        THEN /\ base_features = JList(<<base_data.val>>)
             /\ compare_features_list = JList(<<compare_data.val>>)
             /\ pc # "normalized" => compared
        ELSE /\ pc = "cd_raised"
             /\ diff_result = Raise("UnsupportedType")
             /\ comparison = NoCall

\* C10 witness: two Feature documents compared as one-element lists, the
\* one found modified.
C10_Witness ==
    /\ pc = "cd_returned"
    /\ TypeOf(base_data) = JStr("Feature")
    /\ base_features = JList(<<base_data.val>>)
    /\ ListLen(diff_result.val.changes.modified) = 1

\* C11: load_geojson and compute_diff, on any paths and contents, either
\* return or fail with one of the six declared error kinds; no other
\* failure escapes, also when features is no list or holds no objects.
C11_DeclaredErrorsOnly ==
    /\ (base_data # NoCall /\ ~base_data.ok) => base_data.exc \in GeoDiffErrors
    /\ (compare_data # NoCall /\ ~compare_data.ok) => compare_data.exc \in GeoDiffErrors
    /\ pc = "cd_raised" => diff_result.exc \in GeoDiffErrors

----------------------------------------------------------------------------
(* format_output.                                                          *)

\* str(path), as an f-string writes a path argument.
PathStr(path) == path.name \o path.suffix

\* "\n".join(lines)
RECURSIVE JoinLines(_)
JoinLines(lines) ==
    IF lines = <<>> THEN ""
    ELSE IF Len(lines) = 1 THEN lines[1]
    ELSE lines[1] \o "\n" \o JoinLines(Tail(lines))

\* The string a call returns, when it is built from lines.
PlainText(text) == [text |-> text]

\* json.dumps(value, indent=2): the JSON text of a value.  The text is kept
\* as the value it spells, members and items in the order they are written.
JsonDumps(value) == [json |-> value, indent |-> 2]

\* d[k] = v on a dict: an existing key keeps its place.
SetItem(d, k, v) ==
    IF HasKey(d, k)
    THEN JObj([i \in DOMAIN d.o |-> IF d.o[i][1] = k THEN <<k, v>> ELSE d.o[i]])
    ELSE JObj(d.o \o << <<k, v>> >>)

\* Lines 203-204 (and 207-208, 211-212):
\*     f = feature.copy()
\*     f.setdefault("properties", {})["_geodiff_status"] = status
\* The value of f afterwards, or the exception.
Tagged(f0, status) ==
    IF f0.t # "obj" THEN Raise("AttributeError")
    ELSE IF ~HasKey(f0, "properties")
    THEN Ok(SetItem(f0, "properties", JObj(<< <<"_geodiff_status", JStr(status)>> >>)))
    ELSE LET properties == Get(f0, "properties") IN
         IF properties.t = "obj"
         THEN Ok(SetItem(f0, "properties",
                         SetItem(properties, "_geodiff_status", JStr(status))))
         ELSE Raise("TypeError")

\* The value of the feature itself after those two lines: copy() is shallow,
\* so a properties mapping the feature has is shared with f and receives
\* the key; a properties member added by setdefault is f's alone.
Touched(f0, status) ==
    IF f0.t = "obj" /\ HasKey(f0, "properties") /\ Get(f0, "properties").t = "obj"
    THEN Tagged(f0, status).val
    ELSE f0

\* The feature an entry of changes[status] holds, and the entry holding f.
EntryFeature(status, entry) == IF status = "modified" THEN entry.compare ELSE entry
WithFeature(status, entry, f) ==
    IF status = "modified" THEN [entry EXCEPT !.compare = f] ELSE f

\* One of the three loops of lines 201-213 over changes[status].  The list
\* is walked in its order, which the model leaves open: when an entry makes
\* the loop raise, any set of the other entries may have been walked before.
\* Each outcome gives the exception (or ""), changes afterwards and the
\* features appended.
TagLoop(changes, status) ==
    IF status \notin DOMAIN changes
    THEN {[exc |-> "KeyError", changes |-> changes, appended |-> <<>>]}
    ELSE
    LET family == changes[status]
        tagged(fid) == Tagged(EntryFeature(status, family[fid]), status)
        bad == {fid \in DOMAIN family : ~tagged(fid).ok}
        after(walked) ==
            [changes EXCEPT ![status] =
                [fid \in DOMAIN family |->
                    IF fid \in walked
                    THEN WithFeature(status, family[fid],
                                     Touched(EntryFeature(status, family[fid]), status))
                    ELSE family[fid]]] IN
    IF bad = {}
    THEN {[exc |-> "", changes |-> after(DOMAIN family),
           appended |-> [fid \in DOMAIN family |-> tagged(fid).val]]}
    ELSE {[exc |-> tagged(fid).exc, changes |-> after(walked), appended |-> <<>>] :
             fid \in bad, walked \in SUBSET (DOMAIN family \ bad)}

\* Loops that walk the removed features first.
GEOJSON_LOOPS_RemovedFirst == <<"removed", "added", "modified">>

\* The loops of the geojson mode, in the order of lines 201, 205 and 209.
GEOJSON_LOOPS == <<"added", "removed", "modified">>

\* The loops from the i-th on.  `features` holds what the earlier loops
\* appended: one family per loop, the families in the order of the loops.
RECURSIVE TagLoops(_, _, _)
TagLoops(changes, i, features) ==
    IF i > Len(GEOJSON_LOOPS)
    THEN {[exc |-> "", changes |-> changes, features |-> features]}
    ELSE UNION {IF r.exc # ""
                THEN {[exc |-> r.exc, changes |-> r.changes, features |-> features]}
                ELSE TagLoops(r.changes, i + 1, Append(features, r.appended)) :
                    r \in TagLoop(changes, GEOJSON_LOOPS[i])}

\* Each of the three modes gives the outcomes format_output can have: `out`
\* is the returned text or the exception, `arg` the value of diff_result
\* after the call.

\* Lines 185-196.
FormatSummary(d) ==
    LET summary == d.summary IN
    IF ~({"added_count", "removed_count", "modified_count", "unchanged_count",
          "total_base", "total_compare"} \subseteq DOMAIN summary)
    THEN {[out |-> Raise("KeyError"), arg |-> d]}
    ELSE {[out |-> Ok(PlainText(JoinLines(<<
              "GeoDiff Summary: " \o PathStr(d.base_file) \o " vs " \o PathStr(d.compare_file),
              "  Added:     " \o IntStr(summary.added_count),
              "  Removed:   " \o IntStr(summary.removed_count),
              "  Modified:  " \o IntStr(summary.modified_count),
              "  Unchanged: " \o IntStr(summary.unchanged_count),
              "  Total (base):    " \o IntStr(summary.total_base),
              "  Total (compare): " \o IntStr(summary.total_compare)>>))),
           arg |-> d]}

\* Lines 198-224.
FormatGeojson(d) ==
    {[out |-> IF r.exc # "" THEN Raise(r.exc)
              ELSE Ok(JsonDumps([type |-> JStr("FeatureCollection"),
                                 features |-> r.features,
                                 properties |-> [geodiff_summary |-> d.summary]])),
      arg |-> [d EXCEPT !.changes = r.changes]] :
        r \in TagLoops(d.changes, 1, <<>>)}

\* Lines 226-227.
FormatJson(d) == {[out |-> Ok(JsonDumps(d)), arg |-> d]}

\* A formatter whose last branch is the geojson mode, as the default of the
\* parameter suggests.
format_output_ElseGeojson(d, mode) ==
    IF mode = "summary" THEN FormatSummary(d)
    ELSE IF mode = "json" THEN FormatJson(d)
    ELSE FormatGeojson(d)

\* format_output(diff_result, output_format), lines 174-227.
format_output(d, mode) ==
    IF mode = "summary" THEN FormatSummary(d)
    ELSE IF mode = "geojson" THEN FormatGeojson(d)
    ELSE FormatJson(d)

----------------------------------------------------------------------------
(* format_output called on what compute_diff returns and on the result    *)
(* the entry script builds for a file that is new in the commit.          *)

\* The features of the formatted documents: two that resolve to the identity
\* "1" and differ, the one with a properties mapping and the other with
\* properties null; one with empty properties; one without properties.
FormatFeatures ==
    {Feature(IdMember(JStr("1")), Props(<< <<"name", JStr("x")>> >>)),
     Feature(IdMember(JStr("1")), << <<"properties", JNull>> >>),
     Feature(IdMember(JStr("2")), Props(<<>>)),
     Feature(IdMember(JStr("3")), <<>>)}

FormatDocuments ==
    {FeatureCollection(<< <<"features", JList(l)>> >>) :
        l \in SeqsUpTo(FormatFeatures, MaxDocLen)}

\* The three recognised modes and one that is not.
OutputFormats == {"json", "geojson", "summary", "unknown_format"}

\* main.py lines 125-136: the result for a file the previous commit lacks.
NewFileResult(file) ==
    [base_file |-> Path("(new file)", ""),
     compare_file |-> file,
     has_changes |-> TRUE,
     summary |-> [total_changes |-> 0, inserts |-> 0, updates |-> 0, deletes |-> 0],
     changes |-> [geodiff |-> <<>>],
     note |-> "File is new in this commit"]

InitFormat ==
    /\ \/ /\ pc = "compute_diff"
          /\ base_file = Path("base", ".geojson")
          /\ compare_file = Path("compare", ".geojson")
          /\ \E b \in FormatDocuments, c \in FormatDocuments :
                fs = [p \in {base_file, compare_file} |->
                        IF p = base_file THEN File("json", b) ELSE File("json", c)]
       \/ /\ pc = "new_file"
          /\ base_file = Path("layer", ".gpkg")
          /\ compare_file = Path("", "")
          /\ fs = Idle
    /\ base_data = NoCall /\ compare_data = NoCall
    /\ base_features = Idle /\ compare_features_list = Idle
    /\ comparison = NoCall /\ diff_result = NoCall
    /\ output_format = "" /\ formatted_output = NoCall /\ permuted = Idle
    /\ MainIdle
    /\ feature = Idle /\ index = 0 /\ identity = NoCall

\* main.py lines 123-137.
BuildNewFileResult ==
    /\ pc = "new_file"
    /\ diff_result' = Ok(NewFileResult(base_file))
    /\ pc' = "new_file_result"
    /\ UNCHANGED <<mainVars, output_format, formatted_output, permuted,
                   feature, index, identity, fs, base_file, compare_file,
                   base_data, compare_data, base_features, compare_features_list,
                   comparison>>

\* formatted_output = format_output(diff_result, output_format), on a result
\* just built or on one that has been formatted before.
FormatOutput ==
    /\ pc \in {"cd_returned", "new_file_result", "fo_returned", "fo_raised"}
    /\ \E mode \in OutputFormats :
          \E r \in format_output(diff_result.val, mode) :
             /\ output_format' = mode
             /\ formatted_output' = r.out
             /\ diff_result' = Ok(r.arg)
             /\ pc' = IF r.out.ok THEN "fo_returned" ELSE "fo_raised"
    /\ UNCHANGED <<mainVars, permuted, feature, index, identity, fs, base_file, compare_file,
                   base_data, compare_data, base_features, compare_features_list,
                   comparison>>

NextFormat ==
    \/ LoadBase \/ LoadCompare \/ Normalize \/ CompareAndBuild
    \/ BuildNewFileResult
    \/ FormatOutput

SpecFormat == InitFormat /\ [][NextFormat]_vars

----------------------------------------------------------------------------
(* Claims about format_output.                                             *)

\* format_output has been called.
Formatted == pc \in {"fo_returned", "fo_raised"}

\* The result as compute_diff, or the entry script, built it.
Returned ==
    IF comparison.ok
    THEN DiffResult(base_file, compare_file, TypeOf(base_data), base_features,
                    compare_features_list, comparison.val)
    ELSE NewFileResult(base_file)

\* C12: format_output is pure with respect to its argument: after a call in
\* any mode, geojson included, diff_result and every feature reachable from
\* it (with its properties mapping) equal their values before the call.
C12_ArgumentUnchanged == [][Formatted' => diff_result' = diff_result]_vars

\* The recognised modes.
RecognisedFormats == {"json", "geojson", "summary"}

\* C13: rendering is deterministic and re-render-safe: for the same result
\* and mode, format_output returns the same string whether it is the first
\* rendering or follows any sequence of earlier renderings in any modes.
C13_RerenderSafe ==
    Formatted =>
        \E r \in format_output(Returned, output_format) : formatted_output = r.out

\* C14: format_output is total over json, geojson and summary for every
\* result compute_diff returns, features whose properties is null or absent
\* included: it returns a string and does not fail.
C14_TotalOnDiffResults ==
    (Formatted /\ comparison.ok /\ output_format \in RecognisedFormats) =>
        formatted_output.ok

\* C15: for a result of the tabular shape (the one the entry script builds
\* for a new file), format_output returns a string in each of the modes
\* json, geojson and summary.
C15_TabularShape ==
    (Formatted /\ ~comparison.ok /\ output_format \in RecognisedFormats) =>
        formatted_output.ok

\* C16: a mode string other than json, geojson and summary makes
\* format_output return exactly what the json mode returns for the same
\* argument, and it does not fail.
C16_UnknownModeIsJson ==
    [][(Formatted' /\ output_format' \notin RecognisedFormats) =>
          /\ formatted_output'.ok
          /\ \E r \in format_output(diff_result.val, "json") : formatted_output' = r.out]_vars

\* C16 witness: a result with changes rendered in the mode "unknown_format"
\* after it has been built.
C16_Witness ==
    /\ pc = "fo_returned"
    /\ output_format = "unknown_format"
    /\ comparison.ok
    /\ diff_result.val.has_changes
    /\ formatted_output = Ok(JsonDumps(diff_result.val))

\* The members of an object other than k, in their order.
Rest(x, k) == SelectSeq(x.o, LAMBDA member : member[1] # k)

\* f is the entry's feature e with properties._geodiff_status = status, and
\* nothing else differs.
TaggedCopy(f, e, status) ==
    /\ f.t = "obj"
    /\ Rest(f, "properties") = Rest(e, "properties")
    /\ HasKey(f, "properties")
    /\ LET properties == Get(f, "properties") IN
       /\ properties.t = "obj"
       /\ HasKey(properties, "_geodiff_status")
       /\ Get(properties, "_geodiff_status") = JStr(status)
       /\ Rest(properties, "_geodiff_status") =
              IF HasKey(e, "properties")
              THEN Rest(Get(e, "properties"), "_geodiff_status")
              ELSE <<>>

\* C17: in geojson mode the output is a FeatureCollection whose features
\* are, in this order, all entries of added, then all of removed, then the
\* compare side of every entry of modified; each carries
\* properties._geodiff_status "added", "removed" or "modified"; there are
\* len(modified) features of status modified and len(added) + len(removed)
\* + len(modified) features in all; no unchanged feature appears.
C17_GeojsonFeatures ==
    [][(Formatted' /\ output_format' = "geojson" /\ formatted_output'.ok) =>
          LET changes == diff_result.val.changes
              output == formatted_output'.val.json
              features == output.features
              ids == UNION {DOMAIN features[i] : i \in DOMAIN features} IN
          /\ output.type = JStr("FeatureCollection")
          /\ Len(features) = 3
          /\ DOMAIN features[1] = DOMAIN changes.added
          /\ DOMAIN features[2] = DOMAIN changes.removed
          /\ DOMAIN features[3] = DOMAIN changes.modified
          /\ \A fid \in DOMAIN features[1] :
                TaggedCopy(features[1][fid], changes.added[fid], "added")
          /\ \A fid \in DOMAIN features[2] :
                TaggedCopy(features[2][fid], changes.removed[fid], "removed")
          /\ \A fid \in DOMAIN features[3] :
                TaggedCopy(features[3][fid], changes.modified[fid].compare, "modified")
          /\ Cardinality(DOMAIN features[3]) = ListLen(changes.modified)
          /\ Cardinality(ids) = ListLen(changes.added) + ListLen(changes.removed)
                                  + ListLen(changes.modified)
          /\ ids \cap DOMAIN changes.unchanged = {}]_vars

\* C17 witness: a geojson rendering of a result with one added, one removed
\* and one modified feature.
C17_Witness ==
    /\ pc = "fo_returned"
    /\ output_format = "geojson"
    /\ ListLen(comparison.val.added) = 1
    /\ ListLen(comparison.val.removed) = 1
    /\ ListLen(comparison.val.modified) = 1
    /\ Len(formatted_output.val.json.features) = 3

----------------------------------------------------------------------------
(* Claims about the summary of compute_diff.                               *)

\* C18: the summary counters equal the lengths of the result sequences:
\* added_count, removed_count, modified_count and unchanged_count are the
\* lengths of added, removed, modified and unchanged, and total_base and
\* total_compare are the numbers of features in the base and the compare
\* sequence, duplicates counted.
C18_SummaryCounters ==
    pc = "cd_returned" =>
        LET r == diff_result.val IN
        /\ r.summary.added_count = ListLen(r.changes.added)
        /\ r.summary.removed_count = ListLen(r.changes.removed)
        /\ r.summary.modified_count = ListLen(r.changes.modified)
        /\ r.summary.unchanged_count = ListLen(r.changes.unchanged)
        /\ base_features.t = "list" /\ compare_features_list.t = "list"
        /\ r.summary.total_base = Len(base_features.l)
        /\ r.summary.total_compare = Len(compare_features_list.l)

\* C18 witness: a base sequence of two features that resolve to one
\* identity, compared with an empty sequence: one removed entry, total_base 2.
C18_Witness ==
    /\ pc = "cd_returned"
    /\ Len(base_features.l) = 2
    /\ diff_result.val.summary.total_base = 2
    /\ diff_result.val.summary.removed_count = 1
    /\ diff_result.val.summary.total_compare = 0

\* Both paths name GeoPackage files that exist.
GeoPackageFiles ==
    \A p \in {base_file, compare_file} :
        Lower(p.suffix) = ".gpkg" /\ fs[p].kind \notin {"missing", "directory"}

\* C19: compute_diff on two GeoPackage (.gpkg) files returns a result whose
\* summary holds total_changes, inserts, updates and deletes with
\* total_changes = inserts + updates + deletes, whose changes holds the
\* changeset list, and whose has_changes is false with all counters 0 when
\* the two files are identical.
C19_GeoPackageDiff ==
    (pc \in {"cd_returned", "cd_raised"} /\ GeoPackageFiles) =>
        /\ diff_result.ok
        /\ LET r == diff_result.val IN
           /\ {"total_changes", "inserts", "updates", "deletes"} \subseteq DOMAIN r.summary
           /\ r.summary.total_changes
                 = r.summary.inserts + r.summary.updates + r.summary.deletes
           /\ "geodiff" \in DOMAIN r.changes
           /\ base_file = compare_file =>
                 /\ ~r.has_changes
                 /\ r.summary.total_changes = 0

----------------------------------------------------------------------------
(* compare_features called again on the same features in another order.    *)

\* Two features that resolve to the identity "1" and differ, one with the
\* identity "2", one known by its position only.
PermuteFeatures ==
    {Feature(IdMember(JStr("1")), Props(<< <<"name", JStr("x")>> >>)),
     Feature(IdMember(JStr("1")), Props(<< <<"name", JStr("y")>> >>)),
     Feature(IdMember(JStr("2")), Props(<< <<"name", JStr("x")>> >>)),
     Feature(<<>>, Props(<<>>))}

\* The lists that hold the items of a list in any order.
Reorderings(list) ==
    LET n == Len(list.l) IN
    {JList([i \in 1..n |-> list.l[p[i]]]) :
        p \in {q \in [1..n -> 1..n] : \A i, j \in 1..n : q[i] = q[j] => i = j}}

InitPermute ==
    /\ pc = "compare_features"
    /\ base_features \in {JList(l) : l \in SeqsUpTo(PermuteFeatures, MaxLen)}
    /\ compare_features_list \in {JList(l) : l \in SeqsUpTo(PermuteFeatures, MaxLen)}
    /\ comparison = NoCall
    /\ permuted = Idle
    /\ MainIdle
    /\ feature = Idle /\ index = 0 /\ identity = NoCall
    /\ fs = Idle /\ base_file = Idle /\ compare_file = Idle
    /\ base_data = NoCall /\ compare_data = NoCall
    /\ diff_result = NoCall
    /\ output_format = "" /\ formatted_output = NoCall

\* compare_features(base, compare) on a reordering of each argument.
ComparePermuted ==
    /\ pc = "cmp_returned"
    /\ \E base \in Reorderings(base_features),
          compare \in Reorderings(compare_features_list) :
          permuted' = [base |-> base, compare |-> compare,
                       comparison |-> compare_features(base, compare)]
    /\ pc' = "cmp_permuted"
    /\ UNCHANGED <<mainVars, output_format, formatted_output, feature, index, identity, fs,
                   base_file, compare_file, base_data, compare_data, base_features,
                   compare_features_list, comparison, diff_result>>

\* compare_features(compare, base): the same call with its two arguments
\* exchanged.
CompareSwapped ==
    /\ pc = "cmp_returned"
    /\ permuted' = [base |-> compare_features_list, compare |-> base_features,
                    comparison |-> compare_features(compare_features_list, base_features)]
    /\ pc' = "cmp_swapped"
    /\ UNCHANGED <<mainVars, output_format, formatted_output, feature, index, identity, fs,
                   base_file, compare_file, base_data, compare_data, base_features,
                   compare_features_list, comparison, diff_result>>

NextPermute == CompareFeatures \/ ComparePermuted

SpecPermute == InitPermute /\ [][NextPermute]_vars

\* compare_features called, then called again with its arguments exchanged.
NextSwap == CompareFeatures \/ CompareSwapped

SpecSwap == InitPermute /\ [][NextSwap]_vars

\* The features a result list holds.
Entries(family) == {family[fid] : fid \in DOMAIN family}

\* Both calls classify alike: the same modified identities and the same
\* unchanged features.
SameClassification ==
    /\ permuted.comparison.ok
    /\ DOMAIN permuted.comparison.val.modified = DOMAIN comparison.val.modified
    /\ DOMAIN permuted.comparison.val.unchanged = DOMAIN comparison.val.unchanged
    /\ Entries(permuted.comparison.val.unchanged) = Entries(comparison.val.unchanged)

\* Every feature of the sequence resolves to the same identity at every
\* position, and no two of them to the same one.
Unambiguous(list) ==
    /\ \A i \in DOMAIN list.l : \A idx \in 0..Len(list.l) :
          PrescribedIdentity(list.l[i], idx) = PrescribedIdentity(list.l[i], 0)
    /\ \A i, j \in DOMAIN list.l :
          PrescribedIdentity(list.l[i], 0) = PrescribedIdentity(list.l[j], 0) => i = j

\* C20 as stated: for every permutation of the base sequence and of the
\* compare sequence, compare_features yields the same set of modified
\* identities and the same set of unchanged features.
C20_AnyPermutation == pc = "cmp_permuted" => SameClassification

\* C20, amended: the classification into modified and unchanged does not
\* depend on the scan order of sequences in which every feature has an id
\* or a recognised property key and no two features of a sequence resolve
\* to the same identity.
C20_ScanOrderIndependent ==
    (pc = "cmp_permuted" /\ Unambiguous(base_features)
        /\ Unambiguous(compare_features_list)) => SameClassification

\* C20 witness: both sequences reordered, with one modified identity and one
\* unchanged feature.
C20_Witness ==
    /\ pc = "cmp_permuted"
    /\ Unambiguous(base_features) /\ Unambiguous(compare_features_list)
    /\ permuted.base # base_features
    /\ permuted.compare # compare_features_list
    /\ ListLen(permuted.comparison.val.modified) = 1
    /\ ListLen(permuted.comparison.val.unchanged) = 1

----------------------------------------------------------------------------
(* Further claims about load_geojson and compute_diff.                     *)

\* C21: every document load_geojson returns has a non-empty string as its
\* type; a document without such a type is rejected at load time.
C21_LoadedTypeIsString ==
    \A loaded \in {base_data, compare_data} :
        loaded.ok => /\ HasKey(loaded.val, "type")
                     /\ Get(loaded.val, "type").t = "str"
                     /\ Get(loaded.val, "type").s # ""

\* C22: in compute_diff, when loading the base or the compare document
\* fails, the operation fails before compare_features is invoked and no
\* result is returned; the base document is loaded first, so the compare
\* document is not even read when the base fails and the base-side error is
\* the one surfaced.
C22_LoadFailureAborts ==
    /\ (base_data # NoCall /\ ~base_data.ok) =>
          /\ pc = "cd_raised"
          /\ diff_result = Raise(base_data.exc)
          /\ compare_data = NoCall
          /\ comparison = NoCall
    /\ (compare_data # NoCall /\ ~compare_data.ok) =>
          /\ base_data.ok
          /\ pc = "cd_raised"
          /\ diff_result = Raise(compare_data.exc)
          /\ comparison = NoCall
    /\ comparison # NoCall => base_data.ok /\ compare_data.ok

\* C22 witness: neither file loads (the base is missing, the compare file
\* is no JSON) and the error surfaced is the base's.
C22_Witness ==
    /\ pc = "cd_raised"
    /\ fs[base_file].kind = "missing"
    /\ Lower(compare_file.suffix) = ".geojson"
    /\ fs[compare_file].kind = "invalid_json"
    /\ diff_result = Raise("NotFound")
    /\ compare_data = NoCall

----------------------------------------------------------------------------
(* Further claims about compare_features.                                  *)

\* The positions of one side whose feature is followed by a later feature
\* of the same identity.
Superseded(side) ==
    {i \in DOMAIN side.l :
        \E j \in DOMAIN side.l :
            /\ i < j
            /\ get_feature_id(side.l[j], j - 1).val.s = get_feature_id(side.l[i], i - 1).val.s}

\* The feature values the four lists of a comparison hold.
ListedFeatures(r) ==
    {r.added[fid] : fid \in DOMAIN r.added}
        \cup {r.removed[fid] : fid \in DOMAIN r.removed}
        \cup {r.unchanged[fid] : fid \in DOMAIN r.unchanged}
        \cup {r.modified[fid].base : fid \in DOMAIN r.modified}
        \cup {r.modified[fid].compare : fid \in DOMAIN r.modified}

\* C23: when several features of one side resolve to the same identity the
\* last one in sequence order is the one compared: every entry of the four
\* lists holds the last feature of its identity, each identity of a side
\* has one entry, and a feature superseded by a later one is in no list.
C23_LastWriteWins ==
    (pc = "cmp_returned" /\ comparison.ok) =>
        LET r == comparison.val
            last == {Mapped(base_features, fid) : fid \in SideIds(base_features)}
                      \cup {Mapped(compare_features_list, fid) :
                                fid \in SideIds(compare_features_list)} IN
        /\ \A fid \in DOMAIN r.added : r.added[fid] = Mapped(compare_features_list, fid)
        /\ \A fid \in DOMAIN r.removed : r.removed[fid] = Mapped(base_features, fid)
        /\ \A fid \in DOMAIN r.unchanged : r.unchanged[fid] = Mapped(base_features, fid)
        /\ \A fid \in DOMAIN r.modified :
              /\ r.modified[fid].base = Mapped(base_features, fid)
              /\ r.modified[fid].compare = Mapped(compare_features_list, fid)
        /\ ListLen(r.removed) + ListLen(r.modified) + ListLen(r.unchanged)
              = Cardinality(SideIds(base_features))
        /\ ListLen(r.added) + ListLen(r.modified) + ListLen(r.unchanged)
              = Cardinality(SideIds(compare_features_list))
        /\ \A side \in {base_features, compare_features_list} :
              \A i \in Superseded(side) :
                  side.l[i] \notin last => side.l[i] \notin ListedFeatures(r)

\* C23 witness: the base holds two different features of one identity, the
\* compare side holds the first of them, and the identity is modified
\* because the second one is the one compared.
C23_Witness ==
    /\ pc = "cmp_returned"
    /\ Len(base_features.l) = 2 /\ Len(compare_features_list.l) = 1
    /\ Superseded(base_features) = {1}
    /\ base_features.l[1] # base_features.l[2]
    /\ compare_features_list.l[1] = base_features.l[1]
    /\ ListLen(comparison.val.modified) = 1
    /\ base_features.l[1] \notin ListedFeatures(comparison.val) \ {compare_features_list.l[1]}

\* C30: in every result of compute_diff, removed + modified + unchanged is
\* at most total_base and added + modified + unchanged is at most
\* total_compare, with equality on a side exactly when no two features of
\* that side resolve to the same identity.
C30_CountsWithinTotals ==
    pc = "cd_returned" =>
        LET s == diff_result.val.summary
            from_base == s.removed_count + s.modified_count + s.unchanged_count
            from_compare == s.added_count + s.modified_count + s.unchanged_count IN
        /\ from_base <= s.total_base
        /\ from_compare <= s.total_compare
        /\ from_base = s.total_base <=> Superseded(base_features) = {}
        /\ from_compare = s.total_compare <=> Superseded(compare_features_list) = {}

\* C30 witness: the base holds two features of one identity and the compare
\* side two features of different identities: the base counts fall short of
\* total_base and the compare counts meet total_compare.
C30_Witness ==
    /\ pc = "cd_returned"
    /\ diff_result.val.summary.total_base = 2
    /\ diff_result.val.summary.total_compare = 2
    /\ Superseded(base_features) = {1}
    /\ Superseded(compare_features_list) = {}
    /\ diff_result.val.summary.removed_count + diff_result.val.summary.modified_count
          + diff_result.val.summary.unchanged_count = 1
    /\ diff_result.val.summary.added_count + diff_result.val.summary.modified_count
          + diff_result.val.summary.unchanged_count = 2

\* C29: exchanging the two inputs mirrors the result: compare_features(C, B)
\* has as added the removed list of compare_features(B, C) and as removed
\* its added list, the same modified identities with base and compare
\* exchanged in every entry, and the same number of unchanged features.
C29_SwapMirrors ==
    pc = "cmp_swapped" =>
        /\ permuted.comparison.ok
        /\ LET r == comparison.val
               m == permuted.comparison.val IN
           /\ m.added = r.removed
           /\ m.removed = r.added
           /\ DOMAIN m.modified = DOMAIN r.modified
           /\ \A fid \in DOMAIN r.modified :
                 m.modified[fid] = [id |-> fid, base |-> r.modified[fid].compare,
                                    compare |-> r.modified[fid].base]
           /\ ListLen(m.unchanged) = ListLen(r.unchanged)

\* C29 witness: a comparison with one added, one removed and one modified
\* entry has been repeated with its inputs exchanged.
C29_Witness ==
    /\ pc = "cmp_swapped"
    /\ permuted.base = compare_features_list /\ permuted.compare = base_features
    /\ ListLen(comparison.val.added) = 1
    /\ ListLen(comparison.val.removed) = 1
    /\ ListLen(comparison.val.modified) = 1
    /\ permuted.comparison.val.added # comparison.val.added

----------------------------------------------------------------------------
(* git_utils.py: the file of a commit, extracted to a temporary file.      *)

\* The documents the files of the entry script hold: an empty collection
\* and a collection of one feature.
MainDocuments ==
    {FeatureCollection(<< <<"features", JList(<<>>)>> >>),
     FeatureCollection(<< <<"features",
         JList(<<Feature(IdMember(JStr("1")), Props(<< <<"name", JStr("x")>> >>))>>)>> >>)}

\* What a path holds on disk or in a commit: nothing, bytes that are no
\* text, text that is no JSON, or a document.
MainFiles ==
    {File("missing", JNull), File("undecodable", JNull), File("invalid_json", JNull)}
        \cup {File("json", d) : d \in MainDocuments}

\* The commits a repository can be asked for.
Refs == {"HEAD", "HEAD~1"}

\* A repository (or none: root is false) with one or two commits that
\* tracks one path; tree gives what the path holds in each commit.
Repos ==
    {[root |-> r, has_prev |-> h, path |-> p, tree |-> t] :
        r \in BOOLEAN, h \in BOOLEAN,
        p \in {Path("base", ".geojson"), Path("layer", ".gpkg")},
        t \in [Refs -> MainFiles]}

\* A repository as git can hold it: no files without a repository, none in
\* a commit that does not exist.
WellFormedRepo(r) ==
    /\ ~r.root => ~r.has_prev /\ r.tree["HEAD"].kind = "missing"
    /\ ~r.has_prev => r.tree["HEAD~1"].kind = "missing"

\* git_utils.py lines 123-143: git cat-file -e <commit>:<file_path> exits
\* with 0; False when the command fails for any reason.
has_file_in_commit(rpath, file_path, commit) ==
    /\ rpath # <<>>
    /\ repo.root
    /\ commit \in {"HEAD"} \cup (IF repo.has_prev THEN {"HEAD~1"} ELSE {})
    /\ file_path = repo.path
    /\ repo.tree[commit].kind # "missing"

\* tempfile.mkstemp(suffix=suffix): a new path that ends in the suffix.
TempPath(suffix) == Path("tmp", suffix)

\* The temporary files that exist on disk.
TempFilesOnDisk == {p \in DOMAIN fs : p.name = "tmp" /\ fs[p].kind # "missing"}

InitExtract ==
    /\ pc = "get_file_from_commit"
    /\ repo \in {r \in Repos : WellFormedRepo(r)}
    /\ repo_path = <<"/repo">>
    /\ file_rel_path \in {<<Path("base", ".geojson")>>, <<Path("layer", ".gpkg")>>,
                          <<Path("nonexistent", ".gpkg")>>}
    /\ prev_commit \in {<<"HEAD">>, <<"HEAD~1">>, <<"invalidhash123">>}
    /\ fs = [p \in {TempPath(file_rel_path[1].suffix)} |-> File("missing", JNull)]
    /\ temp_path = <<>> /\ prev_file_path = NoCall
    /\ summary_input = FALSE
    /\ temp_files_to_cleanup = <<>>
    /\ actual_base = <<>> /\ actual_compare = <<>>
    /\ has_changes = FALSE /\ outputs = <<>> /\ failed = <<>>
    /\ pending = "" /\ exit_status = -1 /\ completed = FALSE
    /\ base_file = Idle /\ compare_file = Idle
    /\ base_data = NoCall /\ compare_data = NoCall
    /\ base_features = Idle /\ compare_features_list = Idle
    /\ comparison = NoCall /\ diff_result = NoCall
    /\ output_format = "" /\ formatted_output = NoCall /\ permuted = Idle
    /\ feature = Idle /\ index = 0 /\ identity = NoCall

\* git_utils.py lines 164-173: GitError when the commit lacks the file,
\* else mkstemp creates an empty file (which is no JSON) with the suffix of
\* file_path.  The arguments are main.py's repo_path, file_rel_path and
\* prev_commit.
MakeTempFile ==
    /\ pc = "get_file_from_commit"
    /\ IF ~has_file_in_commit(repo_path, file_rel_path[1], prev_commit[1])
       THEN /\ prev_file_path' = Raise("GitError")
            /\ pc' = "gffc_raised"
            /\ UNCHANGED <<fs, temp_path>>
       ELSE /\ temp_path' = <<TempPath(file_rel_path[1].suffix)>>
            /\ fs' = [fs EXCEPT ![temp_path'[1]] = File("invalid_json", JNull)]
            /\ pc' = "mkstemp"
            /\ UNCHANGED prev_file_path
    /\ UNCHANGED <<feature, index, identity, base_file, compare_file, base_data,
                   compare_data, base_features, compare_features_list, comparison,
                   diff_result, output_format, formatted_output, permuted,
                   summary_input, repo, repo_path, file_rel_path, prev_commit,
                   temp_files_to_cleanup, actual_base, actual_compare, has_changes,
                   outputs, failed, pending, exit_status, completed>>

\* A failed extraction that leaves the temporary file where it is.
GitShow_KeepsTempFile ==
    /\ pc = "mkstemp"
    /\ \E shown \in BOOLEAN :
          IF shown
          THEN /\ fs' = [fs EXCEPT ![temp_path[1]] = repo.tree[prev_commit[1]]]
               /\ prev_file_path' = Ok(temp_path[1])
               /\ pc' = "gffc_returned"
          ELSE /\ prev_file_path' = Raise("GitError")
               /\ pc' = "gffc_raised"
               /\ UNCHANGED fs
    /\ UNCHANGED <<feature, index, identity, base_file, compare_file, base_data,
                   compare_data, base_features, compare_features_list, comparison,
                   diff_result, output_format, formatted_output, permuted,
                   summary_input, repo, repo_path, file_rel_path, prev_commit,
                   temp_path, temp_files_to_cleanup, actual_base, actual_compare,
                   has_changes, outputs, failed, pending, exit_status, completed>>

\* git_utils.py lines 175-187: git show <commit>:<file_path> either prints
\* the content, which is written to the temporary file whose path is
\* returned, or fails with CalledProcessError, on which the temporary file
\* is unlinked and GitError raised.
GitShow ==
    /\ pc = "mkstemp"
    /\ \E shown \in BOOLEAN :
          IF shown
          THEN /\ fs' = [fs EXCEPT ![temp_path[1]] = repo.tree[prev_commit[1]]]
               /\ prev_file_path' = Ok(temp_path[1])
               /\ pc' = "gffc_returned"
          ELSE /\ fs' = [fs EXCEPT ![temp_path[1]] = File("missing", JNull)]
               /\ prev_file_path' = Raise("GitError")
               /\ pc' = "gffc_raised"
    /\ UNCHANGED <<feature, index, identity, base_file, compare_file, base_data,
                   compare_data, base_features, compare_features_list, comparison,
                   diff_result, output_format, formatted_output, permuted,
                   summary_input, repo, repo_path, file_rel_path, prev_commit,
                   temp_path, temp_files_to_cleanup, actual_base, actual_compare,
                   has_changes, outputs, failed, pending, exit_status, completed>>

NextExtract == MakeTempFile \/ GitShow

SpecExtract == InitExtract /\ [][NextExtract]_vars

\* C27: get_file_from_commit either returns the path of an existing
\* temporary file that holds the file's content at the commit and has the
\* original file's extension, or raises GitError, and whenever it raises no
\* temporary file created by the call remains on disk.
C27_ExtractOrGitError ==
    /\ pc = "gffc_returned" =>
          /\ prev_file_path.ok
          /\ prev_file_path.val \in TempFilesOnDisk
          /\ fs[prev_file_path.val] = repo.tree[prev_commit[1]]
          /\ prev_file_path.val.suffix = file_rel_path[1].suffix
    /\ pc = "gffc_raised" =>
          /\ prev_file_path = Raise("GitError")
          /\ TempFilesOnDisk = {}
    /\ prev_file_path # NoCall <=> pc \in {"gffc_returned", "gffc_raised"}

\* C27 witness: the extraction command failed after the temporary file had
\* been created, and the call raised.
C27_Witness ==
    /\ pc = "gffc_raised"
    /\ temp_path # <<>>
    /\ ~prev_file_path.ok
    /\ prev_commit = <<"HEAD~1">>

----------------------------------------------------------------------------
(* main.py: the entry script.                                              *)

\* geodiff.py lines 153-171: the comparison's exception, or the result.
DiffCompared(base, compare, type, bfeatures, cfeatures, cmp) ==
    IF ~cmp.ok THEN Raise(cmp.exc)
    ELSE Ok(DiffResult(base, compare, type, bfeatures, cfeatures, cmp.val))

\* geodiff.py lines 144-153: the two feature sequences are compared.
DiffSequences(base, compare, type, bs, cs) ==
    IF ~bs.ok THEN Raise(bs.exc)
    ELSE DiffCompared(base, compare, type, bs.val, cs.val,
                      compare_features(bs.val, cs.val))

\* geodiff.py lines 138-151: the type check and the two feature sequences.
DiffLoaded(base, compare, bdata, cdata, base_type, compare_type) ==
    IF ~PyEq(base_type, compare_type) THEN Raise("TypeMismatch")
    ELSE DiffSequences(base, compare, base_type,
                       FeatureSequence(bdata, base_type),
                       FeatureSequence(cdata, base_type))

\* geodiff.py lines 135-136: the two loads, the base first.
DiffLoads(base, compare, b, c) ==
    IF ~b.ok THEN Raise(b.exc)
    ELSE IF ~c.ok THEN Raise(c.exc)
    ELSE DiffLoaded(base, compare, b.val, c.val,
                    GetOr(b.val, "type", JNull), GetOr(c.val, "type", JNull))

\* geodiff.py lines 121-171: compute_diff as one call.
compute_diff(base, compare) ==
    DiffLoads(base, compare, load_geojson(base), load_geojson(compare))

\* The variables of the diff engine's own steps, which the entry script
\* does not touch.
engineVars == <<feature, index, identity, base_data, compare_data, base_features,
                compare_features_list, comparison, permuted>>

\* compare_file = "": no compare file was given.
NoFile == Path("", "")

\* The repository a run with a compare file never looks at.
NoRepo ==
    [root |-> FALSE, has_prev |-> FALSE, path |-> Path("base", ".geojson"),
     tree |-> [c \in Refs |-> File("missing", JNull)]]

\* The elements of a list.
Elements(list) == {list[i] : i \in DOMAIN list}

\* Lines 25-70: the inputs and the initial values of the script's
\* variables; in git history mode base_file is the path the repository
\* tracks (if there is a repository) and HEAD holds what is on disk.
InitMain ==
    /\ pc = "main"
    /\ base_file \in {Path("base", ".geojson"), Path("layer", ".gpkg")}
    /\ compare_file \in {NoFile, Path("compare", ".geojson")}
    /\ output_format \in OutputFormats
    /\ summary_input \in BOOLEAN
    /\ \E b \in MainFiles, c \in MainFiles :
          /\ compare_file = NoFile => c = File("missing", JNull)
          /\ fs = [p \in {base_file, compare_file, TempPath(base_file.suffix)} |->
                     IF p = base_file THEN b
                     ELSE IF p = compare_file THEN c
                     ELSE File("missing", JNull)]
    /\ IF compare_file # NoFile
       THEN repo = NoRepo
       ELSE /\ repo \in {r \in Repos : WellFormedRepo(r)}
            /\ repo.path = base_file
            /\ repo.root => repo.tree["HEAD"] = fs[base_file]
    /\ repo_path = <<>> /\ file_rel_path = <<>> /\ prev_commit = <<>>
    /\ temp_path = <<>> /\ prev_file_path = NoCall
    /\ temp_files_to_cleanup = <<>>
    /\ actual_base = <<>> /\ actual_compare = <<>>
    /\ diff_result = NoCall /\ has_changes = FALSE /\ formatted_output = NoCall
    /\ outputs = <<>> /\ failed = <<>>
    /\ pending = "" /\ exit_status = -1 /\ completed = FALSE
    /\ base_data = NoCall /\ compare_data = NoCall
    /\ base_features = Idle /\ compare_features_list = Idle
    /\ comparison = NoCall /\ permuted = Idle
    /\ feature = Idle /\ index = 0 /\ identity = NoCall

\* Lines 75-93: with a compare file the two given files are compared,
\* without one the repository root is looked for from base_file.
SelectMode ==
    /\ pc = "main"
    /\ IF compare_file # NoFile
       THEN /\ actual_base' = <<base_file>>
            /\ actual_compare' = <<compare_file>>
            /\ pc' = "diff"
       ELSE /\ pc' = "find_repo_root"
            /\ UNCHANGED <<actual_base, actual_compare>>
    /\ UNCHANGED <<engineVars, fs, base_file, compare_file, diff_result, output_format,
                   formatted_output, summary_input, repo, repo_path, file_rel_path,
                   prev_commit, temp_path, prev_file_path, temp_files_to_cleanup,
                   has_changes, outputs, failed, pending, exit_status, completed>>

\* Lines 94-110: find_repo_root(base_file); without a repository the action
\* is failed and SystemExit(1) raised, else the path of base_file relative
\* to the root is taken.
FindRepoRoot ==
    /\ pc = "find_repo_root"
    /\ IF ~repo.root
       THEN /\ failed' = Append(failed, "Not a git repository")
            /\ pending' = "SystemExit"
            /\ pc' = "finally"
            /\ UNCHANGED <<repo_path, file_rel_path>>
       ELSE /\ repo_path' = <<"/repo">>
            /\ file_rel_path' = <<base_file>>
            /\ pc' = "get_previous_commit"
            /\ UNCHANGED <<failed, pending>>
    /\ UNCHANGED <<engineVars, fs, base_file, compare_file, diff_result, output_format,
                   formatted_output, summary_input, repo, prev_commit, temp_path,
                   prev_file_path, temp_files_to_cleanup, actual_base, actual_compare,
                   has_changes, outputs, exit_status, completed>>

\* Lines 113-118: get_previous_commit(repo_path) raises GitError when HEAD
\* has no parent; the script fails the action and raises SystemExit(1).
GetPreviousCommit ==
    /\ pc = "get_previous_commit"
    /\ IF ~repo.has_prev
       THEN /\ failed' = Append(failed, "Cannot get previous commit")
            /\ pending' = "SystemExit"
            /\ pc' = "finally"
            /\ UNCHANGED prev_commit
       ELSE /\ prev_commit' = <<"HEAD~1">>
            /\ pc' = "has_file_in_commit"
            /\ UNCHANGED <<failed, pending>>
    /\ UNCHANGED <<engineVars, fs, base_file, compare_file, diff_result, output_format,
                   formatted_output, summary_input, repo, repo_path, file_rel_path,
                   temp_path, prev_file_path, temp_files_to_cleanup, actual_base,
                   actual_compare, has_changes, outputs, exit_status, completed>>

\* Lines 120-152 and 168: the file is new in this commit.  The result is
\* built, has_changes set and the result formatted; an exception of
\* format_output is logged and raised again.  actual_base and
\* actual_compare stay None, so no diff is computed.
NewFile ==
    /\ pc = "has_file_in_commit"
    /\ ~has_file_in_commit(repo_path, file_rel_path[1], prev_commit[1])
    /\ has_changes' = TRUE
    /\ \E r \in format_output(NewFileResult(base_file), output_format) :
          /\ diff_result' = Ok(r.arg)
          /\ formatted_output' = r.out
          /\ pending' = IF r.out.ok THEN "" ELSE r.out.exc
    /\ pc' = "finally"
    /\ UNCHANGED <<engineVars, fs, base_file, compare_file, output_format,
                   summary_input, repo, repo_path, file_rel_path, prev_commit,
                   temp_path, prev_file_path, temp_files_to_cleanup, actual_base,
                   actual_compare, outputs, failed, exit_status, completed>>

\* Lines 120-123, 153-156: the previous commit has the file, which
\* get_file_from_commit is called to extract.
CallGetFileFromCommit ==
    /\ pc = "has_file_in_commit"
    /\ has_file_in_commit(repo_path, file_rel_path[1], prev_commit[1])
    /\ pc' = "get_file_from_commit"
    /\ UNCHANGED <<engineVars, fs, base_file, compare_file, diff_result, output_format,
                   formatted_output, summary_input, repo, repo_path, file_rel_path,
                   prev_commit, temp_path, prev_file_path, temp_files_to_cleanup,
                   actual_base, actual_compare, has_changes, outputs, failed, pending,
                   exit_status, completed>>

\* An extraction that takes the current file as the base and the previous
\* version as what is compared.
Extracted_CurrentAsBase ==
    /\ pc = "gffc_returned"
    /\ temp_files_to_cleanup' = Append(temp_files_to_cleanup, prev_file_path.val)
    /\ actual_base' = <<base_file>>
    /\ actual_compare' = <<prev_file_path.val>>
    /\ pc' = "diff"
    /\ UNCHANGED <<engineVars, fs, base_file, compare_file, diff_result, output_format,
                   formatted_output, summary_input, repo, repo_path, file_rel_path,
                   prev_commit, temp_path, prev_file_path, has_changes, outputs,
                   failed, pending, exit_status, completed>>

\* Lines 156-158, 163-165: the extracted path is noted for cleanup; the
\* previous version is the base, the current file what is compared.
Extracted ==
    /\ pc = "gffc_returned"
    /\ temp_files_to_cleanup' = Append(temp_files_to_cleanup, prev_file_path.val)
    /\ actual_base' = <<prev_file_path.val>>
    /\ actual_compare' = <<base_file>>
    /\ pc' = "diff"
    /\ UNCHANGED <<engineVars, fs, base_file, compare_file, diff_result, output_format,
                   formatted_output, summary_input, repo, repo_path, file_rel_path,
                   prev_commit, temp_path, prev_file_path, has_changes, outputs,
                   failed, pending, exit_status, completed>>

\* Lines 159-161: GitError of the extraction fails the action and raises
\* SystemExit(1).
ExtractFailed ==
    /\ pc = "gffc_raised"
    /\ failed' = Append(failed, "Failed to extract file from previous commit")
    /\ pending' = "SystemExit"
    /\ pc' = "finally"
    /\ UNCHANGED <<engineVars, fs, base_file, compare_file, diff_result, output_format,
                   formatted_output, summary_input, repo, repo_path, file_rel_path,
                   prev_commit, temp_path, prev_file_path, temp_files_to_cleanup,
                   actual_base, actual_compare, has_changes, outputs, exit_status,
                   completed>>

\* Lines 168-170: actual_base and actual_compare are set, the diff is
\* computed and has_changes read from it.  GeoDiffError goes to the except
\* clause, any other exception leaves the guarded block.
ComputeDiff ==
    /\ pc = "diff"
    /\ actual_base # <<>> /\ actual_compare # <<>>
    /\ diff_result' = compute_diff(actual_base[1], actual_compare[1])
    /\ IF diff_result'.ok
       THEN /\ has_changes' = diff_result'.val.has_changes
            /\ pc' = "format_output"
            /\ UNCHANGED pending
       ELSE /\ pending' = diff_result'.exc
            /\ pc' = IF diff_result'.exc \in GeoDiffErrors THEN "except" ELSE "finally"
            /\ UNCHANGED has_changes
    /\ UNCHANGED <<engineVars, fs, base_file, compare_file, output_format,
                   formatted_output, summary_input, repo, repo_path, file_rel_path,
                   prev_commit, temp_path, prev_file_path, temp_files_to_cleanup,
                   actual_base, actual_compare, outputs, failed, exit_status,
                   completed>>

\* Lines 171-174: the result is formatted; format_output may change the
\* result it is given, and its exceptions leave the guarded block.
FormatDiff ==
    /\ pc = "format_output"
    /\ \E r \in format_output(diff_result.val, output_format) :
          /\ diff_result' = Ok(r.arg)
          /\ formatted_output' = r.out
          /\ pending' = IF r.out.ok THEN "" ELSE r.out.exc
    /\ pc' = "finally"
    /\ UNCHANGED <<engineVars, fs, base_file, compare_file, output_format,
                   summary_input, repo, repo_path, file_rel_path, prev_commit,
                   temp_path, prev_file_path, temp_files_to_cleanup, actual_base,
                   actual_compare, has_changes, outputs, failed, exit_status,
                   completed>>

\* An except clause that reports the error and lets the run go on.
HandleGeoDiffError_GoOn ==
    /\ pc = "except"
    /\ failed' = Append(failed, "GeoDiff error")
    /\ pending' = ""
    /\ pc' = "finally"
    /\ UNCHANGED <<engineVars, fs, base_file, compare_file, diff_result, output_format,
                   formatted_output, summary_input, repo, repo_path, file_rel_path,
                   prev_commit, temp_path, prev_file_path, temp_files_to_cleanup,
                   actual_base, actual_compare, has_changes, outputs, exit_status,
                   completed>>

\* Lines 176-178: except GeoDiffError: core.set_failed and SystemExit(1).
HandleGeoDiffError ==
    /\ pc = "except"
    /\ failed' = Append(failed, "GeoDiff error")
    /\ pending' = "SystemExit"
    /\ pc' = "finally"
    /\ UNCHANGED <<engineVars, fs, base_file, compare_file, diff_result, output_format,
                   formatted_output, summary_input, repo, repo_path, file_rel_path,
                   prev_commit, temp_path, prev_file_path, temp_files_to_cleanup,
                   actual_base, actual_compare, has_changes, outputs, exit_status,
                   completed>>

\* A cleanup that runs only when the guarded block ended without exception.
Cleanup_OnSuccessOnly ==
    /\ pc = "finally"
    /\ fs' = [p \in DOMAIN fs |->
                IF pending = "" /\ p \in Elements(temp_files_to_cleanup)
                THEN File("missing", JNull) ELSE fs[p]]
    /\ IF pending = ""
       THEN pc' = "outputs" /\ UNCHANGED exit_status
       ELSE pc' = "exited" /\ exit_status' = 1
    /\ UNCHANGED <<engineVars, base_file, compare_file, diff_result, output_format,
                   formatted_output, summary_input, repo, repo_path, file_rel_path,
                   prev_commit, temp_path, prev_file_path, temp_files_to_cleanup,
                   actual_base, actual_compare, has_changes, outputs, failed, pending,
                   completed>>

\* Lines 179-185: finally, every path of temp_files_to_cleanup is unlinked;
\* then an exception on its way out (SystemExit(1) or an uncaught one) ends
\* the run with exit status 1, and without one the script goes on.
Cleanup ==
    /\ pc = "finally"
    /\ fs' = [p \in DOMAIN fs |->
                IF p \in Elements(temp_files_to_cleanup)
                THEN File("missing", JNull) ELSE fs[p]]
    /\ IF pending = ""
       THEN pc' = "outputs" /\ UNCHANGED exit_status
       ELSE pc' = "exited" /\ exit_status' = 1
    /\ UNCHANGED <<engineVars, base_file, compare_file, diff_result, output_format,
                   formatted_output, summary_input, repo, repo_path, file_rel_path,
                   prev_commit, temp_path, prev_file_path, temp_files_to_cleanup,
                   actual_base, actual_compare, has_changes, outputs, failed, pending,
                   completed>>

\* json.dumps(value): the compact one-line text of a value.
JsonDumpsCompact(value) == [json |-> value, compact |-> TRUE]

\* text.replace("\n", "%0A")
EscapeNewlines(text) == [escaped |-> text]

\* str(flag).lower()
LowerStr(flag) == PlainText(IF flag THEN "true" ELSE "false")

\* Lines 194-204: the two outputs; diff_result is the compact JSON of the
\* result in json mode and the formatted text with its newlines escaped in
\* every other mode.
SetOutputs ==
    /\ pc = "outputs"
    /\ outputs' = outputs \o
          <<[name |-> "diff_result",
             value |-> IF output_format = "json"
                       THEN JsonDumpsCompact(diff_result.val)
                       ELSE EscapeNewlines(formatted_output.val)],
            [name |-> "has_changes", value |-> LowerStr(has_changes)]>>
    /\ pc' = IF summary_input THEN "summary" ELSE "print"
    /\ UNCHANGED <<engineVars, fs, base_file, compare_file, diff_result, output_format,
                   formatted_output, summary_input, repo, repo_path, file_rel_path,
                   prev_commit, temp_path, prev_file_path, temp_files_to_cleanup,
                   actual_base, actual_compare, has_changes, failed, pending,
                   exit_status, completed>>

\* Lines 209-231: the step summary reads total_changes, inserts, updates
\* and deletes of diff_result["summary"]; a missing key is a KeyError
\* nothing catches, which ends the run with exit status 1.
StepSummary ==
    /\ pc = "summary"
    /\ IF {"total_changes", "inserts", "updates", "deletes"}
              \subseteq DOMAIN diff_result.val.summary
       THEN /\ pc' = "print"
            /\ UNCHANGED <<pending, exit_status>>
       ELSE /\ pending' = "KeyError"
            /\ exit_status' = 1
            /\ pc' = "exited"
    /\ UNCHANGED <<engineVars, fs, base_file, compare_file, diff_result, output_format,
                   formatted_output, summary_input, repo, repo_path, file_rel_path,
                   prev_commit, temp_path, prev_file_path, temp_files_to_cleanup,
                   actual_base, actual_compare, has_changes, outputs, failed,
                   completed>>

\* Line 234: the completion message, after which the script ends.
Completed ==
    /\ pc = "print"
    /\ completed' = TRUE
    /\ exit_status' = 0
    /\ pc' = "exited"
    /\ UNCHANGED <<engineVars, fs, base_file, compare_file, diff_result, output_format,
                   formatted_output, summary_input, repo, repo_path, file_rel_path,
                   prev_commit, temp_path, prev_file_path, temp_files_to_cleanup,
                   actual_base, actual_compare, has_changes, outputs, failed, pending>>

NextMain ==
    \/ SelectMode \/ FindRepoRoot \/ GetPreviousCommit
    \/ NewFile \/ CallGetFileFromCommit
    \/ MakeTempFile \/ GitShow
    \/ Extracted \/ ExtractFailed
    \/ ComputeDiff \/ FormatDiff \/ HandleGeoDiffError
    \/ Cleanup
    \/ SetOutputs \/ StepSummary \/ Completed

SpecMain == InitMain /\ [][NextMain]_vars

----------------------------------------------------------------------------
(* Claims about the entry script.                                          *)

\* C24: every temporary file produced by extracting the previous revision
\* is deleted before the run ends, on every path after the extraction: a
\* successful diff, a GeoDiffError of the diff and any other failure raised
\* inside the guarded block.
C24_TempFilesDeleted ==
    pc = "exited" =>
        /\ TempFilesOnDisk = {}
        /\ prev_file_path.ok =>
              /\ prev_file_path.val \in Elements(temp_files_to_cleanup)
              /\ fs[prev_file_path.val].kind = "missing"

\* C24 witness: the previous revision was extracted, the diff raised an
\* exception that is no GeoDiffError, and the run has ended.
C24_Witness ==
    /\ pc = "exited"
    /\ prev_file_path.ok
    /\ temp_files_to_cleanup = <<prev_file_path.val>>
    /\ diff_result = Raise("UnicodeDecodeError")
    /\ pending = "UnicodeDecodeError"
    /\ exit_status = 1

\* compute_diff has failed with a GeoDiffError.
DiffFailed == diff_result # NoCall /\ ~diff_result.ok /\ diff_result.exc \in GeoDiffErrors

\* C25: whenever compute_diff fails with a GeoDiffError the run marks the
\* action as failed and ends with exit status 1, without setting the
\* diff_result or has_changes output and without the completion message.
C25_GeoDiffErrorFailsRun ==
    DiffFailed =>
        /\ outputs = <<>>
        /\ ~completed
        /\ pc \in {"except", "finally", "exited"}
        /\ pc # "except" => failed = <<"GeoDiff error">> /\ pending = "SystemExit"
        /\ pc = "exited" => exit_status = 1

\* C25 witness: a run of two given files, one of which is no JSON, has
\* ended.
C25_Witness ==
    /\ pc = "exited"
    /\ compare_file # NoFile
    /\ diff_result = Raise("MalformedInput")
    /\ failed = <<"GeoDiff error">>
    /\ exit_status = 1

\* C26: with a compare file the diff is computed with base = base_file and
\* compare = compare_file; in git history mode, when the previous commit
\* has the file, with base = the extracted previous version and compare =
\* the current base_file; and in git history mode no diff is computed
\* before the repository root and the previous commit have been resolved.
C26_DiffArguments ==
    /\ pc \in {"format_output", "except"} =>
          IF compare_file # NoFile
          THEN /\ diff_result = compute_diff(base_file, compare_file)
               /\ actual_base = <<base_file>> /\ actual_compare = <<compare_file>>
          ELSE /\ prev_file_path.ok
               /\ fs[prev_file_path.val] = repo.tree["HEAD~1"]
               /\ diff_result = compute_diff(prev_file_path.val, base_file)
               /\ actual_base = <<prev_file_path.val>> /\ actual_compare = <<base_file>>
    /\ (compare_file = NoFile /\ diff_result # NoCall) =>
          /\ repo.root /\ repo_path = <<"/repo">>
          /\ repo.has_prev /\ prev_commit = <<"HEAD~1">>

\* C26 witness: in git history mode the previous version, an empty
\* collection, has been compared with the current file of one feature.
C26_Witness ==
    /\ pc = "format_output"
    /\ compare_file = NoFile
    /\ diff_result.ok
    /\ diff_result.val.base_file = TempPath(".geojson")
    /\ diff_result.val.compare_file = base_file
    /\ diff_result.val.summary.added_count = 1
    /\ diff_result.val.summary.total_base = 0

\* A result was obtained, from compute_diff or for a new file.
ResultObtained == diff_result # NoCall /\ diff_result.ok

\* C28: every run in which a result is obtained sets both outputs and
\* reaches the completion message, for every output_format of json,
\* geojson and summary and both values of the summary flag.
C28_ResultRunsComplete ==
    (pc = "exited" /\ ResultObtained /\ output_format \in {"json", "geojson", "summary"}) =>
        /\ {outputs[i].name : i \in DOMAIN outputs} = {"diff_result", "has_changes"}
        /\ completed
        /\ exit_status = 0

====
